---- MODULE Spec2Model ----
(***************************************************************************)
(* Timeline controller and interaction engine (TimelineCtrl, tlClip,       *)
(* tlTransition, tlKeyframe, tlMultiSelectable).                           *)
(*                                                                         *)
(* Time is counted in ticks.  One tick is the time one pixel spans at the  *)
(* current zoom (TicksPerPixel), one frame spans FrameTicks ticks.         *)
(* The project tree is a record: clips, effects (transitions), layers are  *)
(* sequences of records, duration is a number.  A collection key that is   *)
(* absent from the record stands for a slot that no longer holds an array  *)
(* (deleted, or overwritten by a non-array value); the model stops at such *)
(* a state (Intact).                                                       *)
(***************************************************************************)
EXTENDS Integers, Sequences, FiniteSets, TLC

VARIABLES
  project,            \* $scope.project
  Qt,                 \* $scope.Qt
  sortPending,        \* a sortItems callback sits in the $evalAsync queue
  lastSelectedItem,   \* $scope.lastSelectedItem, as a reference [type, id]
  dragging,           \* $scope.dragging
  enable_razor,       \* $scope.enable_razor
  enable_timing,      \* $scope.enable_timing
  hostSel,            \* the selection the host holds, from the calls it got
  calls,              \* the outbound host calls of the gesture in progress or last ended
  gesture,            \* the pointer gesture in progress: kind, item, what its start saw
  resize_disabled,    \* the resize_disabled global of the directives
  dragLoc,            \* the handle a resize grabbed
  timing_original_start, \* the closure variable of each clip directive
  transactionId,      \* the closure variable of the keyframe directive
  bounding_box,       \* the bounding_box global
  snapline,           \* $scope.snapline
  kp,                 \* per clip directive: ui.keyframe_preview, the pending digest and
                      \* render callback, and the keyframe icons' left
  pixelsPerSecond,    \* $scope.pixelsPerSecond, as the fraction it was computed from
  keyframeUi,         \* keyframe_prop_filter, keyframeSvgTemplates and keyframeCache
  gestures,           \* how many gestures have begun, counted up to MaxGestures
  last                \* the operation that ran last, with its inputs (history)

storeVars == <<project, Qt, sortPending>>
selVars == <<lastSelectedItem, hostSel>>
modeVars == <<dragging, enable_razor, enable_timing>>
gestVars == <<gesture, resize_disabled, dragLoc, timing_original_start, transactionId, bounding_box,
              snapline, kp, pixelsPerSecond, keyframeUi>>
vars == <<project, Qt, sortPending, lastSelectedItem, hostSel, dragging, enable_razor,
          enable_timing, gesture, resize_disabled, dragLoc, timing_original_start,
          transactionId, bounding_box, snapline, kp, pixelsPerSecond, keyframeUi, gestures,
          calls, last>>

\* ------------------------------------------------------------------ bounds
FrameTicks == 3
FramesPerSecond == 2
MaxClips == 2
MaxPx == 7
MaxGestures == 2

Min(a, b) == IF a <= b THEN a ELSE b
Max(a, b) == IF a >= b THEN a ELSE b

\* ------------------------------------------------------- time arithmetic
TicksPerPixel == 1

pixelToTime(px) == px * TicksPerPixel

\* round(t * fps) / fps, Math.round rounding halves up
snapToFPSGridTime(t) == FrameTicks * ((2 * t + FrameTicks) \div (2 * FrameTicks))

\* ------------------------------------------------------------ the project
Collections == {"clips", "effects", "layers"}
BoolFields == {"selected", "lock", "has_single_image"}
NumFields == {"layer", "position", "start", "end", "number", "duration", "reader_duration",
              "playhead_position", "scale", "tick_pixels"}

Clip(id, layer, position, start, end) ==
  [id |-> id, layer |-> layer, position |-> position, start |-> start,
   end |-> end, selected |-> FALSE, has_single_image |-> FALSE,
   reader_duration |-> 3 * FrameTicks, alpha |-> <<1, 2>>, effects |-> <<>>]

Transition(id, layer, position, end) ==
  [id |-> id, layer |-> layer, position |-> position, start |-> 0,
   end |-> end, selected |-> FALSE, brightness |-> <<1, 2>>]

Layer(id, number, lock) == [id |-> id, number |-> number, lock |-> lock]

Intact == Collections \subseteq DOMAIN project

\* ------------------------------------------------------------- sortItems
RECURSIVE InsertSorted(_, _, _)
\* x goes after every element whose key is <= its own: the sort is stable
InsertSorted(x, s, f) ==
  IF s = <<>> THEN <<x>>
  ELSE IF Head(s)[f] <= x[f] THEN <<Head(s)>> \o InsertSorted(x, Tail(s), f)
  ELSE <<x>> \o s

RECURSIVE SortBy(_, _)
SortBy(s, f) ==
  IF s = <<>> THEN <<>>
  ELSE InsertSorted(s[Len(s)], SortBy(SubSeq(s, 1, Len(s) - 1), f), f)

\* a sort that leaves every collection in the order it finds it
KeepOrder(p) == p

SortItemsNow(p) ==
  [p EXCEPT !.clips = SortBy(p.clips, "position"),
            !.effects = SortBy(p.effects, "position"),
            !.layers = SortBy(p.layers, "number")]

\* what a digest does with the $evalAsync queue
Digest(p, pending) == IF pending THEN SortItemsNow(p) ELSE p

enable_sorting == TRUE

\* sortItems(): queues the sort when sorting is on and the host is bound
SortQueued(pending, qt) == pending \/ (enable_sorting /\ qt)

Sorted(s, f) == \A i \in 1..(Len(s) - 1) : s[i][f] <= s[i + 1][f]

\* ----------------------------------------------------------- applyJsonDiff
Str(s) == [k |-> "str", v |-> s]
Sel(i) == [k |-> "id", v |-> i]

RECURSIVE Get(_, _)
Get(v, path) == IF path = <<>> THEN v ELSE Get(v[Head(path)], Tail(path))

RECURSIVE Put(_, _, _)
Put(v, path, x) ==
  IF path = <<>> THEN x
  ELSE [v EXCEPT ![Head(path)] = Put(v[Head(path)], Tail(path), x)]

\* the constructor of the value a reference points at
Kind(path) ==
  CASE Len(path) = 0 -> "Object"
    [] Len(path) = 1 -> IF path[1] \in Collections THEN "Array" ELSE "Prim"
    [] Len(path) = 2 -> "Object"
    [] Len(path) = 3 -> IF path[3] = "effects" THEN "Array" ELSE "Prim"
    [] Len(path) = 4 -> "Object"
    [] OTHER -> "Prim"

HasOwn(p, path, name) == Kind(path) = "Object" /\ name \in DOMAIN Get(p, path)

IndexOfId(arr, id) ==
  IF \E i \in 1..Len(arr) : arr[i].id = id
  THEN CHOOSE i \in 1..Len(arr) : arr[i].id = id /\ \A j \in 1..(i - 1) : arr[j].id # id
  ELSE 0

\* one key level of the walk; positions are 1-based
WalkStep(p, w, kv) ==
  IF kv.k = "str"
  THEN IF HasOwn(p, w.cur, kv.v)
       THEN [w EXCEPT !.prev = w.cur, !.hasPrev = TRUE,
                      !.cur = Append(w.cur, kv.v), !.key = kv.v]
       ELSE w
  ELSE IF Kind(w.cur) = "Array"
       THEN LET arr == Get(p, w.cur)
                idx == IndexOfId(arr, kv.v)
            IN IF idx > 0
               THEN [w EXCEPT !.prev = w.cur, !.hasPrev = TRUE,
                              !.cur = Append(w.cur, idx), !.pos = idx]
               ELSE [w EXCEPT !.pos = Len(arr) + 1]
       ELSE w

RECURSIVE WalkFrom(_, _, _)
WalkFrom(p, w, key) ==
  IF key = <<>> THEN w ELSE WalkFrom(p, WalkStep(p, w, Head(key)), Tail(key))

Walk(p, key) ==
  WalkFrom(p, [cur |-> <<>>, prev |-> <<>>, hasPrev |-> FALSE, pos |-> 1, key |-> ""], key)

\* if (current_object)
Truthy(p, path) ==
  IF Kind(path) # "Prim" THEN TRUE
  ELSE LET f == path[Len(path)]
           x == Get(p, path)
       IN IF f \in BoolFields THEN x
          ELSE IF f \in NumFields THEN x # 0
          ELSE x # ""

Merge(obj, value) ==
  [f \in (DOMAIN obj) \cup (DOMAIN value) |->
     IF f \in DOMAIN value THEN value[f] ELSE obj[f]]

RemoveAt(s, i) == SubSeq(s, 1, i - 1) \o SubSeq(s, i + 1, Len(s))

RemoveKey(obj, name) == [f \in (DOMAIN obj) \ {name} |-> obj[f]]

\* previous_object[slot] = value; a collection slot that receives a
\* non-array stops being a collection
ReplaceSlot(p, w, a) ==
  IF Kind(w.prev) = "Array" THEN Put(p, Append(w.prev, w.pos), a.value)
  ELSE IF Kind(w.cur) = "Array" /\ a.vkind # "Array"
       THEN Put(p, w.prev, RemoveKey(Get(p, w.prev), w.key))
       ELSE Put(p, Append(w.prev, w.key), a.value)

\* the body of the loop for one action: the new tree, whether sortItems was
\* reached, whether the action threw (previous_object is null)
ApplyAction(p, a) ==
  LET w == Walk(p, a.key)
      same == [p |-> p, sorted |-> FALSE, threw |-> FALSE]
      done(q) == [p |-> q, sorted |-> TRUE, threw |-> FALSE]
      throw == [p |-> p, sorted |-> FALSE, threw |-> TRUE]
  IN IF ~Truthy(p, w.cur) THEN same
     ELSE CASE a.type = "insert" ->
                 IF Kind(w.cur) = "Array"
                 THEN done(Put(p, w.cur, Append(Get(p, w.cur), a.value)))
                 ELSE IF ~w.hasPrev THEN throw ELSE done(ReplaceSlot(p, w, a))
            [] a.type = "update" ->
                 IF Kind(w.cur) = "Object" /\ a.vkind = "Object"
                 THEN done(Put(p, w.cur, Merge(Get(p, w.cur), a.value)))
                 ELSE IF ~w.hasPrev THEN throw ELSE done(ReplaceSlot(p, w, a))
            [] a.type = "delete" ->
                 IF ~w.hasPrev THEN throw
                 ELSE IF Kind(w.prev) = "Array"
                      THEN done(Put(p, w.prev, RemoveAt(Get(p, w.prev), w.pos)))
                      ELSE done(Put(p, w.prev, RemoveKey(Get(p, w.prev), w.key)))
            [] OTHER -> done(p)

RECURSIVE ApplyAll(_, _, _)
\* the loop over jsonDiff; an exception ends it
ApplyAll(p, pending, diff) ==
  IF diff = <<>> \/ Collections \ DOMAIN p # {} THEN [p |-> p, pending |-> pending]
  ELSE LET r == ApplyAction(p, Head(diff))
       IN IF r.threw THEN [p |-> p, pending |-> pending]
          ELSE ApplyAll(r.p, IF r.sorted THEN SortQueued(pending, Qt) ELSE pending,
                        Tail(diff))

\* ---------------------------------------------------------------- host calls
NoTx == 0

Call(name, type, id, tx, arg) ==
  [name |-> name, type |-> type, id |-> id, tx |-> tx, arg |-> arg]

addSelection(id, type, clear) == Call("addSelection", type, id, NoTx, clear)
removeSelection(id, type) == Call("removeSelection", type, id, NoTx, FALSE)

RECURSIVE Flatten(_)
Flatten(ss) == IF ss = <<>> THEN <<>> ELSE Head(ss) \o Flatten(Tail(ss))

\* the host's side of addSelection / removeSelection
HostApply(sel, c) ==
  CASE c.name = "addSelection" ->
         LET kept == IF c.arg THEN {x \in sel : x[1] # c.type} ELSE sel
         IN IF c.id = "" THEN kept ELSE kept \cup {<<c.type, c.id>>}
    [] c.name = "removeSelection" -> sel \ {<<c.type, c.id>>}
    [] OTHER -> sel

RECURSIVE HostApplyAll(_, _)
HostApplyAll(sel, cs) ==
  IF cs = <<>> THEN sel ELSE HostApplyAll(HostApply(sel, Head(cs)), Tail(cs))
Gate(qt, cs) == IF qt THEN cs ELSE <<>>

\* ---------------------------------------------------------------- selectItem
NoItem == [type |-> "", id |-> ""]
NoEvent == [defined |-> FALSE, ctrlKey |-> FALSE, shiftKey |-> FALSE, altKey |-> FALSE]

MapSeq(s, F(_)) == [i \in 1..Len(s) |-> F(s[i])]

SetSelected(x, b) == [x EXCEPT !.selected = b]

Unselect(x) == SetSelected(x, FALSE)

UnselectClip(c) == [c EXCEPT !.selected = FALSE, !.effects = MapSeq(@, Unselect)]

EffectRemovals(c, all) ==
  Flatten([j \in 1..Len(c.effects) |->
             IF all \/ ~c.effects[j].selected
             THEN <<removeSelection(c.effects[j].id, "effect")>> ELSE <<>>])

Removals(s, type, all) ==
  Flatten([i \in 1..Len(s) |->
             IF all \/ ~s[i].selected THEN <<removeSelection(s[i].id, type)>> ELSE <<>>])

\* the path of the first clip effect with this id, <<>> when there is none
FindClipEffect(p, id) ==
  LET has(i) == IndexOfId(p.clips[i].effects, id) > 0
  IN IF \E i \in 1..Len(p.clips) : has(i)
     THEN LET i == CHOOSE i \in 1..Len(p.clips) : has(i) /\ \A j \in 1..(i - 1) : ~has(j)
          IN <<"clips", i, "effects", IndexOfId(p.clips[i].effects, id)>>
     ELSE <<>>

\* the lookup selectItem makes for an item of a type; <<>> for undefined
FindItem(p, type, id) ==
  CASE type = "clip" ->
         IF IndexOfId(p.clips, id) > 0 THEN <<"clips", IndexOfId(p.clips, id)>> ELSE <<>>
    [] type = "transition" ->
         IF IndexOfId(p.effects, id) > 0 THEN <<"effects", IndexOfId(p.effects, id)>> ELSE <<>>
    [] type = "effect" ->
         IF IndexOfId(p.effects, id) > 0 THEN <<"effects", IndexOfId(p.effects, id)>>
         ELSE FindClipEffect(p, id)
    [] OTHER -> <<>>

\* the id === "" branch
ClearType(p, qt, type) ==
  CASE type = "clip" ->
         [p |-> [p EXCEPT !.clips = MapSeq(@, Unselect)],
          out |-> Gate(qt, Removals(p.clips, "clip", TRUE))]
    [] type = "transition" ->
         [p |-> [p EXCEPT !.effects = MapSeq(@, Unselect)],
          out |-> Gate(qt, Removals(p.effects, "transition", TRUE))]
    [] type = "effect" ->
         [p |-> [p EXCEPT !.effects = MapSeq(@, Unselect),
                          !.clips = MapSeq(@, LAMBDA c : [c EXCEPT !.effects = MapSeq(@, Unselect)])],
          out |-> Gate(qt, Removals(p.effects, "effect", TRUE)
                           \o Flatten([i \in 1..Len(p.clips) |-> EffectRemovals(p.clips[i], TRUE)]))]
    [] OTHER -> [p |-> p, out |-> <<>>]

\* the clearing loops left out
ClearNothing(p, qt) == [p |-> p, out |-> <<>>]

\* the clearing loops of the shift and the default branch
ClearClipsAndTransitions(p, qt) ==
  [p |-> [p EXCEPT !.clips = MapSeq(@, UnselectClip), !.effects = MapSeq(@, Unselect)],
   out |-> Gate(qt, Flatten([i \in 1..Len(p.clips) |->
                               EffectRemovals(p.clips[i], TRUE)
                               \o <<removeSelection(p.clips[i].id, "clip")>>])
                    \o Removals(p.effects, "transition", TRUE))]

\* clip.selected = true on the items a test picks, with the calls
SelectWhere(p, qt, T(_)) ==
  [p |-> [p EXCEPT !.clips = MapSeq(@, LAMBDA c : IF T(c) THEN SetSelected(c, TRUE) ELSE c),
                   !.effects = MapSeq(@, LAMBDA t : IF T(t) THEN SetSelected(t, TRUE) ELSE t)],
   out |-> Gate(qt, Flatten([i \in 1..Len(p.clips) |->
                               IF T(p.clips[i])
                               THEN <<addSelection(p.clips[i].id, "clip", FALSE)>> ELSE <<>>])
                    \o Flatten([i \in 1..Len(p.effects) |->
                                  IF T(p.effects[i])
                                  THEN <<addSelection(p.effects[i].id, "transition", FALSE)>>
                                  ELSE <<>>]))]
\* the left edge taken for the right edge
LeftEdge(x) == x.position

Extent(x) == x.position + (x.end - x.start)

\* the ripple branch (ALT or force_ripple)
SelectRipple(p, qt, id, type, clear, ev) ==
  LET ref == FindItem(p, type, id)
      picked == IF ref # <<>> /\ type \in {"clip", "transition"}
                THEN LET it == Get(p, ref)
                     IN SelectWhere(p, qt, LAMBDA x : x.layer = it.layer /\ x.position >= it.position)
                ELSE [p |-> p, out |-> <<>>]
      q == picked.p
      cleared == IF clear /\ ~ev.ctrlKey
                 THEN Gate(qt, Flatten([i \in 1..Len(q.clips) |->
                                          (IF ~q.clips[i].selected
                                           THEN <<removeSelection(q.clips[i].id, "clip")>> ELSE <<>>)
                                          \o EffectRemovals(q.clips[i], FALSE)])
                               \o Removals(q.effects, "transition", FALSE))
                 ELSE <<>>
  IN [p |-> q, out |-> picked.out \o cleared]

\* the SHIFT branch: the range between the anchor and the clicked item
SelectRange(p, qt, lsi, id, type, clear, ev) ==
  LET c == IF clear /\ ~ev.ctrlKey THEN ClearClipsAndTransitions(p, qt)
           ELSE [p |-> p, out |-> <<>>]
      ref == FindItem(c.p, IF type = "clip" THEN "clip" ELSE "transition", id)
      aref == FindItem(c.p, lsi.type, lsi.id)
      r == IF ref # <<>> /\ Len(aref) = 2
           THEN LET it == Get(c.p, ref)
                    an == Get(c.p, aref)
                    minPosition == Min(it.position, an.position)
                    maxPosition == Max(Extent(it), Extent(an))
                    minLayer == Min(an.layer, it.layer)
                    maxLayer == Max(an.layer, it.layer)
                IN SelectWhere(c.p, qt, LAMBDA x : /\ x.position >= minPosition
                                                   /\ Extent(x) <= maxPosition
                                                   /\ x.layer >= minLayer
                                                   /\ x.layer <= maxLayer)
           ELSE [p |-> c.p, out |-> <<>>]
  IN [p |-> r.p, out |-> c.out \o r.out]

\* the default branch: clear, then select or toggle the clicked item
SelectOne(p, qt, id, type, clear, ev) ==
  LET c == IF clear /\ ~ev.ctrlKey
           THEN LET cc == ClearClipsAndTransitions(p, qt)
                IN [p |-> cc.p, out |-> cc.out \o Gate(qt, Removals(p.effects, "effect", TRUE))]
           ELSE [p |-> p, out |-> <<>>]
      ref == FindItem(c.p, type, id)
  IN IF ref = <<>> THEN c
     ELSE LET it == Get(c.p, ref)
          IN IF ev.ctrlKey /\ clear /\ it.selected
             THEN [p |-> Put(c.p, ref, SetSelected(it, FALSE)),
                   out |-> c.out \o Gate(qt, <<removeSelection(it.id, type)>>)]
             ELSE [p |-> Put(c.p, ref, SetSelected(it, TRUE)),
                   out |-> c.out \o Gate(qt, <<addSelection(it.id, type, FALSE)>>)]

\* the default branch taken without a look at the dragging flag
SelectWhileDragging(p, lsi, drag, razor, qt, id, type, clear, ev, force_ripple) ==
  [p |-> SelectOne(p, qt, id, type, clear, ev).p, lsi |-> lsi,
   out |-> SelectOne(p, qt, id, type, clear, ev).out]

\* selectItem without the razor test
SelectWithoutRazor(p, lsi, drag, razor, qt, id, type, clear, ev, force_ripple) ==
  IF drag THEN [p |-> p, lsi |-> lsi, out |-> <<>>]
  ELSE [p |-> SelectOne(p, qt, id, type, clear, ev).p, lsi |-> lsi,
        out |-> SelectOne(p, qt, id, type, clear, ev).out]

\* $scope.selectItem; the result is the tree, lastSelectedItem and the calls
selectItem(p, lsi, drag, razor, qt, id, type, clear, ev, force_ripple) ==
  LET keep(r) == [p |-> r.p, lsi |-> lsi, out |-> r.out]
      move(r) == [p |-> r.p, out |-> r.out,
                  lsi |-> IF ev.altKey THEN lsi
                          ELSE IF FindItem(r.p, type, id) = <<>> THEN NoItem
                          ELSE [type |-> type, id |-> id]]
  IN IF drag THEN keep([p |-> p, out |-> <<>>])
     ELSE IF id = ""
     THEN keep(IF clear THEN ClearType(p, qt, type) ELSE [p |-> p, out |-> <<>>])
     ELSE IF razor /\ qt /\ ev.defined
     THEN keep([p |-> p,
                out |-> <<Call("RazorSliceAtCursor", type, IF type \in {"clip", "transition"} THEN id ELSE "",
                               NoTx, 0)>>])
     ELSE IF ev.altKey \/ force_ripple THEN keep(SelectRipple(p, qt, id, type, clear, ev))
     ELSE IF ev.shiftKey /\ lsi # NoItem /\ type \in {"clip", "transition"}
     THEN move(SelectRange(p, qt, lsi, id, type, clear, ev))
     ELSE move(SelectOne(p, qt, id, type, clear, ev))
\* ------------------------------------------------------------ initial state
Project(clips, effects, layers, duration) ==
  [clips |-> clips, effects |-> effects, layers |-> layers, duration |-> duration,
   playhead_position |-> 0]

TwoLayers == <<Layer("L1", 1, FALSE), Layer("L2", 2, FALSE)>>

NoGesture == [kind |-> "none"]

\* a scale is held in units of 1/100000 of a second per tick
ScaleUnit == 100000

\* scale and tick_pixels of the project the controller starts with, and the
\* pixelsPerSecond it computes from them
DefaultScale == 16 * ScaleUnit
DefaultTickPixels == 100
DefaultPixelsPerSecond == [n |-> DefaultTickPixels, d |-> DefaultScale]

\* no filter, no icon template loaded, nothing cached
NoKeyframeUi == [filter |-> "", templates |-> {}, cache |-> <<>>]

\* showSnapline where a snap was used, and hideSnapline: $scope.snapline after
showSnapline(shown, snapped) == snapped \/ shown
hideSnapline(shown) == FALSE

\* ---------------------------------------------- the keyframe preview of a clip
\* ui.keyframe_preview when it is not active: nothing reads its other fields,
\* and startKeyframePreview writes every one of them
NoContainer == [active |-> FALSE]

\* a clip directive before any preview: no $evalAsync callback queued,
\* keyframePreviewRaf null, no render callback held by the browser, the icons
\* where the template put them and without a data-original-left attribute
NoKeyframePreview ==
  [preview |-> NoContainer, digest |-> FALSE, raf |-> FALSE, callbacks |-> 0,
   left |-> "original", saved |-> "none"]

\* cancelKeyframePreviewRender: the pending callback is cancelled
cancelKeyframePreviewRender(k) ==
  IF ~k.raf THEN k ELSE [k EXCEPT !.raf = FALSE, !.callbacks = @ - 1]

\* a schedule that does not look at keyframePreviewRaf
ScheduleUnguarded(k) == [k EXCEPT !.raf = TRUE, !.callbacks = @ + 1]

\* scheduleKeyframePreviewRender: one callback, unless one is pending
scheduleKeyframePreviewRender(k) ==
  IF k.raf THEN k ELSE [k EXCEPT !.raf = TRUE, !.callbacks = @ + 1]

\* scheduleKeyframePreviewDigest: the callback waits in the $evalAsync queue
scheduleKeyframePreviewDigest(k) == [k EXCEPT !.digest = TRUE]

\* renderKeyframePreview on the icons: without an active preview the left
\* goes back to data-original-left where the attribute exists; with one the
\* attribute captures the left once and the left is set from the window
renderKeyframePreview(k) ==
  IF ~k.preview.active
  THEN (IF k.saved # "none" THEN [k EXCEPT !.left = k.saved, !.saved = "none"] ELSE k)
  ELSE [k EXCEPT !.saved = IF k.saved = "none" THEN k.left ELSE k.saved,
                 !.left = "preview"]

\* clearKeyframePreviewTransform: cancel, and drop every data-original-left
clearKeyframePreviewTransform(k) == [cancelKeyframePreviewRender(k) EXCEPT !.saved = "none"]

\* startKeyframePreview(mode) at the start of a resize: timing_original_start
\* and timing_original_end were set to the clip's start and end by the same
\* handler when the mode is retime
startKeyframePreview(k, clip, mode) ==
  renderKeyframePreview(scheduleKeyframePreviewDigest(
    [k EXCEPT !.preview =
       [active |-> TRUE, mode |-> mode,
        originalStart |-> snapToFPSGridTime(clip.start),
        originalEnd |-> snapToFPSGridTime(clip.end),
        displayStart |-> snapToFPSGridTime(clip.start),
        displayEnd |-> snapToFPSGridTime(clip.end),
        projectedStart |-> snapToFPSGridTime(clip.start),
        projectedEnd |-> snapToFPSGridTime(clip.end)]]))

\* updateKeyframePreview(displayStart, displayEnd)
updateKeyframePreview(k, displayStart, displayEnd) ==
  IF ~k.preview.active THEN k
  ELSE LET startSec == Min(snapToFPSGridTime(displayStart), snapToFPSGridTime(displayEnd))
           endSec == Max(snapToFPSGridTime(displayStart), snapToFPSGridTime(displayEnd))
           originStart == k.preview.originalStart
           originEnd == Max(k.preview.originalEnd, k.preview.originalStart)
       IN renderKeyframePreview(scheduleKeyframePreviewDigest(
            [k EXCEPT !.preview.displayStart = startSec,
                      !.preview.displayEnd = endSec,
                      !.preview.projectedStart = IF k.preview.mode = "trim" THEN startSec
                                                 ELSE originStart,
                      !.preview.projectedEnd = IF k.preview.mode = "trim" THEN endSec
                                               ELSE originEnd]))

\* stopKeyframePreview
stopKeyframePreview(k) ==
  clearKeyframePreviewTransform(scheduleKeyframePreviewDigest([k EXCEPT !.preview = NoContainer]))

\* a digest runs the queued callbacks, each of which schedules the render
DigestKeyframePreview(k) ==
  IF k.digest THEN scheduleKeyframePreviewRender([k EXCEPT !.digest = FALSE]) ELSE k

\* the digest drains the queue of every clip directive
DigestPreviews(ks) == [id \in DOMAIN ks |-> DigestKeyframePreview(ks[id])]

NoBox == [kind |-> "empty"]

InitRest ==
  /\ sortPending = FALSE
  /\ lastSelectedItem = NoItem
  /\ hostSel = {}
  /\ dragging = FALSE
  /\ enable_razor = FALSE
  /\ enable_timing = FALSE
  /\ gesture = NoGesture
  /\ resize_disabled = FALSE
  /\ dragLoc = "null"
  /\ timing_original_start = [id \in {"c1", "c2", "c3"} |-> 0]
  /\ transactionId = NoTx
  /\ bounding_box = NoBox
  /\ snapline = FALSE
  /\ kp = [id \in {"c1", "c2", "c3"} |-> NoKeyframePreview]
  /\ pixelsPerSecond = DefaultPixelsPerSecond
  /\ keyframeUi = NoKeyframeUi
  /\ gestures = 0
  /\ calls = <<>>
  /\ last = [op |-> "init"]

\* ------------------------------------------------- host data synchronisation
StoreProjects ==
  {Project(<<Clip("c1", 1, 0, 0, 6), Clip("c2", 1, p2, 0, 6)>>,
           <<Transition("t1", 1, pt, 3)>>, TwoLayers, 30) : p2 \in {0, 6}, pt \in {0}}

LoadableProjects ==
  StoreProjects \cup
  {Project(<<Clip("c2", 2, 6, 0, 6), Clip("c1", 1, 0, 0, 6)>>, <<>>,
           <<Layer("L2", 2, FALSE), Layer("L1", 1, FALSE)>>, 30)}

UnknownId == "zz"

Action(type, key, value, vkind) == [type |-> type, key |-> key, value |-> value, vkind |-> vkind]

Ids(s) == {s[i].id : i \in 1..Len(s)}

\* the diffs the host sends, by the type of the value they carry
EntityDiffs(p) ==
  LET cids == Ids(p.clips) \cup {UnknownId}
      room == Len(p.clips) < MaxClips
  IN {<<Action("insert", <<Str("clips")>>, Clip("c3", 1, x, 0, 6), "Object")>> :
        x \in IF room /\ "c3" \notin cids THEN {0} ELSE {}}
     \cup {<<Action("insert", <<Str("clips"), Sel(i)>>, Clip(i, 1, 3, 0, 6), "Object")>> :
             i \in IF room THEN cids ELSE cids \ {UnknownId}}

PatchDiffs(p) ==
  {<<Action("update", <<Str("clips"), Sel(i)>>, [position |-> 3], "Object")>> :
     i \in Ids(p.clips) \cup {UnknownId}}

NumberDiffs(p) ==
  {<<Action("update", <<Str("clips"), Sel(i), Str("position")>>, 3, "Prim")>> :
     i \in Ids(p.clips) \cup {UnknownId}}
  \cup {<<Action("delete", <<Str("clips"), Sel(i)>>, 0, "Prim")>> :
          i \in Ids(p.clips) \cup {UnknownId}}
  \cup {<<Action("delete", <<Str("effects"), Sel(i)>>, 0, "Prim")>> :
          i \in Ids(p.effects) \cup {UnknownId}}
  \cup {<<Action("delete", <<Str("bogus")>>, 0, "Prim")>>}

FlagDiffs ==
  {<<Action("update", <<Str("layers"), Sel("L1"), Str("lock")>>, b, "Prim")>> : b \in BOOLEAN}

\* delete an entity and insert the same JSON again, in one diff
RoundTrip(p, coll, i) ==
  <<Action("delete", <<Str(coll), Sel(p[coll][i].id)>>, 0, "Prim"),
    Action("insert", <<Str(coll)>>, p[coll][i], "Object")>>

RoundTrips(p, coll) == {RoundTrip(p, coll, i) : i \in 1..Len(p[coll])}

EnableQt ==
  /\ ~Qt
  /\ Qt' = TRUE
  /\ last' = [op |-> "enableQt"]
  /\ UNCHANGED <<project, sortPending, selVars, modeVars, gestVars, calls>>
  /\ UNCHANGED gestures

\* applyJsonDiff: the sort it asks for stays in the queue
ApplyJsonDiff(diff) ==
  /\ Intact
  /\ LET r == ApplyAll(project, sortPending, diff)
     IN /\ project' = r.p
        /\ sortPending' = r.pending
  /\ last' = [op |-> "applyJsonDiff", diff |-> diff,
               before |-> IF Len(diff) > 1 THEN project ELSE <<>>]
  /\ UNCHANGED <<Qt, selVars, modeVars, gestVars, calls>>
  /\ UNCHANGED gestures

\* the digest that runs the queued sort
SortTick ==
  /\ Intact
  /\ sortPending
  /\ project' = SortItemsNow(project)
  /\ sortPending' = FALSE
  /\ last' = [op |-> "sortItems", after |-> last]
  /\ UNCHANGED <<Qt, selVars, modeVars, gestVars, calls>>
  /\ UNCHANGED gestures

\* project.scale += 1/100000, where the tree has a scale
BumpScale(p) == IF "scale" \in DOMAIN p THEN [p EXCEPT !.scale = @ + 1] ELSE p

\* loadJson: replace the tree, clear the clip selection, sort, move the
\* playhead to 0, nudge the scale, digest
LoadJson(value) ==
  /\ Intact
  /\ LET r == selectItem(value, lastSelectedItem, dragging, enable_razor, Qt,
                         "", "clip", TRUE, NoEvent, FALSE)
     IN /\ project' = BumpScale([Digest(r.p, SortQueued(sortPending, Qt))
                                   EXCEPT !.playhead_position = snapToFPSGridTime(0)])
        /\ hostSel' = HostApplyAll(hostSel, r.out)
  /\ sortPending' = FALSE
  /\ last' = [op |-> "loadJson"]
  /\ UNCHANGED <<Qt, lastSelectedItem, modeVars, gestVars, calls>>
  /\ UNCHANGED gestures

\* a call of selectItem (selectClip, selectTransition, selectEffect, ...)
SelectItem(id, type, clear, ev, force_ripple) ==
  /\ Intact
  /\ LET r == selectItem(project, lastSelectedItem, dragging, enable_razor, Qt,
                         id, type, clear, ev, force_ripple)
     IN /\ project' = r.p
        /\ lastSelectedItem' = r.lsi
        /\ hostSel' = HostApplyAll(hostSel, r.out)
        /\ last' = [op |-> "selectItem", id |-> id, type |-> type, clear |-> clear,
                    ev |-> ev, force_ripple |-> force_ripple, out |-> r.out]
  /\ UNCHANGED <<Qt, sortPending, modeVars, gestVars, calls>>
  /\ UNCHANGED gestures

Click == [NoEvent EXCEPT !.defined = TRUE]
CtrlClick == [Click EXCEPT !.ctrlKey = TRUE]
ShiftClick == [Click EXCEPT !.shiftKey = TRUE]
AltClick == [Click EXCEPT !.altKey = TRUE]

Init ==
  /\ project \in StoreProjects
  /\ Qt = FALSE
  /\ InitRest

Next ==
  \/ EnableQt
  \/ Intact /\ \E d \in EntityDiffs(project) : ApplyJsonDiff(d)
  \/ Intact /\ \E d \in PatchDiffs(project) : ApplyJsonDiff(d)
  \/ Intact /\ \E d \in NumberDiffs(project) : ApplyJsonDiff(d)
  \/ \E d \in FlagDiffs : ApplyJsonDiff(d)
  \/ Intact /\ \E d \in RoundTrips(project, "clips") \cup RoundTrips(project, "effects") : ApplyJsonDiff(d)
  \/ SortTick
  \/ \E v \in LoadableProjects : LoadJson(v)
  \/ \E id \in {"c1", UnknownId} : SelectItem(id, "clip", TRUE, NoEvent, FALSE)

Spec == Init /\ [][Next]_vars
\* ------------------------------------------------------------ selection
\* selectAll: the calls go out whether or not the host is bound
SelectAll ==
  /\ Intact
  /\ LET q == Digest(project, sortPending)
         r == SelectWhere(q, TRUE, LAMBDA x : TRUE)
     IN /\ project' = r.p
        /\ hostSel' = HostApplyAll(hostSel, r.out)
        /\ last' = [op |-> "selectAll", out |-> r.out]
  /\ sortPending' = FALSE
  /\ UNCHANGED <<Qt, lastSelectedItem, modeVars, gestVars, calls>>
  /\ UNCHANGED gestures

\* clearAllSelections: selectClip(""), selectTransition(""), selectEffect("")
ClearAllSelections ==
  /\ Intact
  /\ \E r1 \in {selectItem(project, lastSelectedItem, dragging, enable_razor, Qt,
                             "", "clip", TRUE, NoEvent, FALSE)} :
     \E r2 \in {selectItem(r1.p, r1.lsi, dragging, enable_razor, Qt,
                             "", "transition", TRUE, NoEvent, FALSE)} :
     \E r3 \in {selectItem(r2.p, r2.lsi, dragging, enable_razor, Qt,
                             "", "effect", TRUE, NoEvent, FALSE)} :
     \E out \in {r1.out \o r2.out \o r3.out} :
        /\ project' = Digest(r3.p, sortPending)
        /\ lastSelectedItem' = r3.lsi
        /\ hostSel' = HostApplyAll(hostSel, out)
        /\ last' = [op |-> "clearAllSelections", out |-> out]
  /\ sortPending' = FALSE
  /\ UNCHANGED <<Qt, modeVars, gestVars, calls>>
  /\ UNCHANGED gestures

\* tlMultiSelectable, selected: an item enters the marquee
MarqueeSelected(type, id) ==
  /\ Intact
  /\ type \in {"clip", "transition"}
  /\ FindItem(project, type, id) # <<>>
  /\ LET ref == FindItem(project, type, id)
         out == Gate(Qt, <<addSelection(id, type, FALSE), addSelection("", "effect", TRUE)>>)
     IN /\ project' = Put(project, ref, SetSelected(Get(project, ref), TRUE))
        /\ hostSel' = HostApplyAll(hostSel, out)
        /\ last' = [op |-> "marqueeSelected", id |-> id, type |-> type, out |-> out]
  /\ UNCHANGED <<Qt, sortPending, lastSelectedItem, modeVars, gestVars, calls>>
  /\ UNCHANGED gestures

\* tlMultiSelectable, unselected: a selected item is left out of the marquee
MarqueeUnselected(type, id) ==
  /\ Intact
  /\ type \in {"clip", "transition"}
  /\ FindItem(project, type, id) # <<>>
  /\ Get(project, FindItem(project, type, id)).selected
  /\ LET ref == FindItem(project, type, id)
         out == Gate(Qt, <<removeSelection(id, type)>>)
     IN /\ project' = Put(project, ref, SetSelected(Get(project, ref), FALSE))
        /\ hostSel' = HostApplyAll(hostSel, out)
        /\ last' = [op |-> "marqueeUnselected", id |-> id, type |-> type, out |-> out]
  /\ UNCHANGED <<Qt, sortPending, lastSelectedItem, modeVars, gestVars, calls>>
  /\ UNCHANGED gestures

AnySelected(p) ==
  \/ \E i \in 1..Len(p.clips) : p.clips[i].selected
  \/ \E i \in 1..Len(p.effects) : p.effects[i].selected

\* tlMultiSelectable, stop
MarqueeStop ==
  /\ Intact
  /\ LET r == IF AnySelected(project)
              THEN [p |-> project, lsi |-> lastSelectedItem, out |-> <<>>]
              ELSE selectItem(project, lastSelectedItem, dragging, enable_razor, Qt,
                              "", "effect", TRUE, NoEvent, FALSE)
     IN /\ project' = Digest(r.p, sortPending)
        /\ lastSelectedItem' = r.lsi
        /\ hostSel' = HostApplyAll(hostSel, r.out)
        /\ last' = [op |-> "marqueeStop", out |-> r.out]
  /\ sortPending' = FALSE
  /\ UNCHANGED <<Qt, modeVars, gestVars, calls>>
  /\ UNCHANGED gestures

RECURSIVE ManualSelect(_, _, _, _, _)
\* the two loops of startManualMove over one collection, from index i on
ManualSelect(st, coll, type, item_ids, i) ==
  IF i > Len(st.p[coll]) THEN st
  ELSE LET on == st.p[coll][i].id \in item_ids
           \* the state after this item, each step bound to its value
           next == {[p |-> r.p, lsi |-> r.lsi, out |-> st.out \o r.out] :
                      r \in UNION {{IF on
                                    THEN selectItem(q, st.lsi, dragging, enable_razor, Qt,
                                                    q[coll][i].id, type, FALSE, NoEvent, FALSE)
                                    ELSE [p |-> q, lsi |-> st.lsi, out |-> <<>>]} :
                                   q \in {Put(st.p, <<coll, i, "selected">>, on)}}}
       IN CHOOSE done \in {ManualSelect(n, coll, type, item_ids, i + 1) : n \in next} : TRUE

\* startManualMove: the bounding box is built later, from a timer
StartManualMove(item_type, item_ids) ==
  /\ Intact
  /\ gesture.kind \in {"none", "manual"}
  /\ \E s0 \in {[p |-> Digest(project, sortPending), lsi |-> lastSelectedItem, out |-> <<>>]} :
     \E s1 \in {ManualSelect(s0, "clips", "clip", item_ids, 1)} :
     \E s2 \in {ManualSelect(s1, "effects", "transition", item_ids, 1)} :
        /\ project' = s2.p
        /\ lastSelectedItem' = s2.lsi
        /\ hostSel' = HostApplyAll(hostSel, s2.out)
        /\ last' = [op |-> "startManualMove", item_type |-> item_type,
                    item_ids |-> item_ids, out |-> s2.out]
  /\ sortPending' = FALSE
  /\ gesture' = [kind |-> "manual", item_ids |-> item_ids, timer |-> TRUE]
  /\ calls' = <<>>
  /\ UNCHANGED <<Qt, modeVars, resize_disabled, dragLoc, timing_original_start,
                 transactionId, bounding_box, snapline, kp, pixelsPerSecond,
                 keyframeUi>>
  /\ gestures' = Min(gestures + 1, MaxGestures)

Effect(id) == [id |-> id, selected |-> FALSE]

SelectProject ==
  Project(<<[Clip("c1", 1, 0, 0, 6) EXCEPT !.effects = <<Effect("e1")>>], Clip("c2", 1, 6, 0, 6)>>,
          <<Transition("t1", 2, 3, 3)>>, TwoLayers, 30)

InitSelect ==
  /\ project = SelectProject
  /\ Qt = TRUE
  /\ InitRest

Targets ==
  {<<"c1", "clip">>, <<"c2", "clip">>, <<"t1", "transition">>, <<"e1", "effect">>,
   <<"", "clip">>, <<"", "transition">>, <<"", "effect">>, <<UnknownId, "clip">>}

NextSelect ==
  \/ \E t \in Targets, ev \in {NoEvent, CtrlClick, ShiftClick, AltClick} :
        SelectItem(t[1], t[2], TRUE, ev, FALSE)
  \/ \E t \in Targets : SelectItem(t[1], t[2], FALSE, NoEvent, FALSE)
  \/ \E t \in {<<"c1", "clip">>, <<"t1", "transition">>} : SelectItem(t[1], t[2], TRUE, Click, TRUE)
  \/ SelectAll
  \/ ClearAllSelections
  \/ \E t \in Targets : MarqueeSelected(t[2], t[1])
  \/ \E t \in Targets : MarqueeUnselected(t[2], t[1])
  \/ MarqueeStop
  \/ \E ids \in {{"c1"}, {"c2"}, {"c1", "t1"}} : StartManualMove("clip", ids)

SpecSelect == InitSelect /\ [][NextSelect]_vars

\* the entities whose selected flag is set
SelectedSet(p) ==
  {<<"clip", p.clips[i].id>> : i \in {j \in 1..Len(p.clips) : p.clips[j].selected}}
  \cup {<<"transition", p.effects[i].id>> : i \in {j \in 1..Len(p.effects) : p.effects[j].selected}}
  \cup UNION {{<<"effect", p.clips[i].effects[k].id>> :
                 k \in {j \in 1..Len(p.clips[i].effects) : p.clips[i].effects[j].selected}} :
              i \in 1..Len(p.clips)}

\* C3: the host is told of every selection transition (selectItem, selectAll,
\* clearAllSelections, marquee, startManualMove), so the selection it holds is
\* the set of entities whose selected flag is true.
C3_HostSelectionMatches == Qt => hostSel = SelectedSet(project)

\* ------------------------------------------------------------ resizeTimeline
SecondTicks == FrameTicks * FramesPerSecond
min_timeline_length == 300 * SecondTicks
min_timeline_padding == 10 * SecondTicks

RECURSIVE MaxOver(_, _)
MaxOver(s, m) == IF s = <<>> THEN m ELSE MaxOver(Tail(s), Max(m, Extent(Head(s))))

\* resizeTimeline: the tree and the call, if one goes out
ResizeTimeline(p, qt) ==
  LET furthest_right_edge == MaxOver(p.clips, 0)
      new_timeline_length == Max(min_timeline_length, furthest_right_edge + min_timeline_padding)
  IN IF furthest_right_edge > p.duration /\ qt
     THEN [p |-> [p EXCEPT !.duration = new_timeline_length],
           out |-> <<Call("resizeTimeline", "", "", NoTx, new_timeline_length)>>]
     ELSE [p |-> p, out |-> <<>>]

\* resizeTimeline called from inside a $apply, as the resizable stop of a clip
\* does: the host is asked, and the duration is set by a $apply of its own,
\* which AngularJS refuses while another is in progress; the runtime is not
\* part of the source, so both outcomes are kept
ResizeTimelineInApply(p, qt) ==
  {ResizeTimeline(p, qt), [p |-> p, out |-> ResizeTimeline(p, qt).out]}

\* ------------------------------------------------------------ clip resize
LayerLocked(p, n) == \E i \in 1..Len(p.layers) : p.layers[i].number = n /\ p.layers[i].lock

AnyLocked(p) == \E i \in 1..Len(p.layers) : p.layers[i].lock

isSingleImageClip(c) == c.has_single_image

getReaderDurationSeconds(c) ==
  IF c.reader_duration > 0 THEN c.reader_duration ELSE Max(c.end - c.start, 0)

NoLimit == -1

\* the elements of a sequence
Range(q) == {q[i] : i \in 1..Len(q)}

\* getTimePoints: the co.X of the points of the clip's time curve
getTimePoints(c) == IF "time" \in DOMAIN c THEN c.time ELSE <<>>

hasTimeKeyframes(c) == Len(getTimePoints(c)) >= 2

\* getRetimedDurationSeconds: the frame span of the time curve, NoLimit for null
getRetimedDurationSeconds(c) ==
  IF ~hasTimeKeyframes(c) THEN NoLimit
  ELSE LET points == getTimePoints(c)
           minFrame == CHOOSE x \in Range(points) : \A y \in Range(points) : x <= y
           maxFrame == CHOOSE x \in Range(points) : \A y \in Range(points) : x >= y
       IN IF maxFrame <= minFrame THEN NoLimit ELSE (maxFrame - minFrame) * FrameTicks

isResizeConstrained(c, timing) == ~timing /\ ~isSingleImageClip(c)

\* getMaxDurationSeconds: NoLimit for null
getMaxDurationSeconds(c, timing) ==
  IF timing THEN NoLimit
  ELSE IF getRetimedDurationSeconds(c) # NoLimit THEN getRetimedDurationSeconds(c)
  ELSE IF ~isResizeConstrained(c, timing) THEN NoLimit
  ELSE getReaderDurationSeconds(c)

\* getMaxClipEndSeconds: NoLimit for null
getMaxClipEndSeconds(c, timing) ==
  IF getMaxDurationSeconds(c, timing) = NoLimit THEN NoLimit
  ELSE c.start + getMaxDurationSeconds(c, timing)

\* new_position, new_left, new_right of the stop handler, for the pointer at px
ResizeEdges(c, loc, px, timing) ==
  LET original_left_edge == c.position
      original_right_edge == c.position + (c.end - c.start)
      delta_time == CASE loc = "left" -> original_left_edge - pixelToTime(px)
                      [] loc = "right" -> original_right_edge - pixelToTime(px)
                      [] OTHER -> 0
      allowLeftOverflow == timing \/ isSingleImageClip(c)
      maxClipEndSeconds == getMaxClipEndSeconds(c, timing)
  IN IF loc = "left"
     THEN LET overflow == IF c.start - delta_time < 0 THEN delta_time - c.start ELSE 0
              targetStart == IF c.start - delta_time < 0 THEN 0 ELSE c.start - delta_time
          IN [new_position |-> IF targetStart >= c.end THEN c.position
                               ELSE c.position - (IF overflow > 0 /\ ~allowLeftOverflow
                                                  THEN c.start ELSE delta_time),
              new_left |-> IF targetStart >= c.end THEN c.end ELSE targetStart,
              new_right |-> IF overflow > 0 /\ allowLeftOverflow THEN c.end + overflow ELSE c.end]
     ELSE [new_position |-> c.position,
           new_left |-> c.start,
           new_right |-> IF maxClipEndSeconds # NoLimit /\ c.end - delta_time > maxClipEndSeconds
                         THEN maxClipEndSeconds
                         ELSE IF c.end - delta_time < c.start THEN c.start
                         ELSE c.end - delta_time]

\* the clip after the stop handler's $apply
ResizedClip(c, loc, px, timing, original_start) ==
  LET e == ResizeEdges(c, loc, px, timing)
  IN IF timing
     THEN LET duration_sec == snapToFPSGridTime(e.new_right) - snapToFPSGridTime(e.new_left)
          IN [c EXCEPT !.start = original_start,
                       !.end = snapToFPSGridTime(original_start + duration_sec),
                       !.position = snapToFPSGridTime(e.new_position)]
     ELSE [c EXCEPT !.end = IF c.end # e.new_right THEN snapToFPSGridTime(e.new_right) ELSE c.end,
                    !.start = snapToFPSGridTime(e.new_left),
                    !.position = snapToFPSGridTime(e.new_position)]

\* setSelections: an item that is not selected becomes the selection
setSelections(p, lsi, drag, qt, razor, id, type) ==
  IF FindItem(p, type, id) # <<>> /\ ~Get(p, FindItem(p, type, id)).selected
  THEN selectItem(p, lsi, drag, razor, qt, id, type, TRUE, NoEvent, FALSE)
  ELSE [p |-> p, lsi |-> lsi, out |-> <<>>]

\* resizable start of a clip; pointerLocked is hasLockedTrack at the pointer
ClipResizeStart(id, side, pointerLocked) ==
  /\ Intact
  /\ gesture.kind = "none"
  /\ IndexOfId(project.clips, id) > 0
  /\ pointerLocked => AnyLocked(project)
  /\ \E s \in {setSelections(project, lastSelectedItem, dragging, Qt, enable_razor, id, "clip")} :
     \E q \in {Digest(s.p, sortPending)} :
     \E c \in {q.clips[IndexOfId(q.clips, id)]} :
     \E trackLocked \in {LayerLocked(q, c.layer)} :
        /\ project' = q
        /\ lastSelectedItem' = s.lsi
        /\ hostSel' = HostApplyAll(hostSel, s.out)
        /\ resize_disabled' = (~pointerLocked /\ trackLocked)
        /\ timing_original_start' = IF enable_timing
                                    THEN [timing_original_start EXCEPT ![id] = c.start]
                                    ELSE timing_original_start
        /\ gesture' = [kind |-> "clip_resize", type |-> "clip", id |-> id,
                       locked |-> pointerLocked \/ trackLocked]
        /\ kp' = IF pointerLocked THEN DigestPreviews(kp)
                 ELSE [DigestPreviews(kp) EXCEPT ![id] =
                         startKeyframePreview(@, c, IF enable_timing THEN "retime" ELSE "trim")]
  /\ sortPending' = FALSE
  /\ dragging' = TRUE
  /\ dragLoc' = side
  /\ bounding_box' = [kind |-> "trimming", type |-> "clip", id |-> id]
  /\ UNCHANGED <<pixelsPerSecond, keyframeUi>>
  /\ calls' = <<>>
  /\ last' = [op |-> "clipResizeStart", id |-> id, side |-> side, pointerLocked |-> pointerLocked]
  /\ UNCHANGED <<Qt, enable_razor, enable_timing, transactionId, snapline>>
  /\ gestures' = Min(gestures + 1, MaxGestures)

\* resizable stop of a clip; px is where moveBoundingBox puts the pointer
ClipResizeStop(px) ==
  /\ Intact
  /\ gesture.kind = "clip_resize"
  /\ IndexOfId(project.clips, gesture.id) > 0
  /\ dragging' = FALSE
  /\ gesture' = NoGesture
  /\ resize_disabled' = FALSE
  /\ IF resize_disabled
     THEN /\ last' = [op |-> "clipResizeStop", id |-> gesture.id, px |-> px, disabled |-> TRUE,
                      locked |-> gesture.locked, timing |-> enable_timing]
          /\ UNCHANGED <<project, sortPending, dragLoc, calls>>
     ELSE LET i == IndexOfId(project.clips, gesture.id)
              c == ResizedClip(project.clips[i], dragLoc, px, enable_timing,
                               timing_original_start[gesture.id])
              rpc == IF enable_timing
                     THEN Call("RetimeClip", "clip", c.id, NoTx, <<c.end, c.position>>)
                     ELSE Call("update_clip_data", "clip", c.id, NoTx, c)
          IN \E r \in ResizeTimelineInApply([project EXCEPT !.clips[i] = c], Qt) :
             /\ project' = Digest(r.p, sortPending)
             /\ sortPending' = FALSE
             /\ calls' = calls \o r.out \o Gate(Qt, <<rpc>>)
             /\ dragLoc' = "null"
             /\ last' = [op |-> "clipResizeStop", id |-> gesture.id, px |-> px, disabled |-> FALSE,
                         locked |-> gesture.locked, timing |-> enable_timing]
  /\ snapline' = IF resize_disabled THEN snapline ELSE hideSnapline(snapline)
  /\ kp' = IF resize_disabled THEN [kp EXCEPT ![gesture.id] = stopKeyframePreview(@)]
           ELSE DigestPreviews([kp EXCEPT ![gesture.id] = stopKeyframePreview(@)])
  /\ UNCHANGED <<pixelsPerSecond, keyframeUi>>
  /\ UNCHANGED <<Qt, selVars, enable_razor, enable_timing, timing_original_start,
                 transactionId, bounding_box>>
  /\ UNCHANGED gestures

\* setTimingMode / the timing toggle of the host
SetTimingMode(b) ==
  /\ Intact
  /\ enable_timing # b
  /\ enable_timing' = b
  /\ project' = Digest(project, sortPending)
  /\ sortPending' = FALSE
  /\ last' = [op |-> "setTimingMode"]
  /\ kp' = DigestPreviews(kp)
  /\ UNCHANGED <<pixelsPerSecond, keyframeUi>>
  /\ UNCHANGED <<Qt, selVars, dragging, enable_razor, gesture, resize_disabled, dragLoc,
                 timing_original_start, transactionId, bounding_box, snapline, calls>>
  /\ UNCHANGED gestures

\* ------------------------------------------------------ transition resize
\* the transition after the stop handler's $apply
ResizedTransition(t, loc, px) ==
  LET original_left_edge == t.position
      original_right_edge == t.position + (t.end - t.start)
      delta_time == CASE loc = "left" -> original_left_edge - pixelToTime(px)
                      [] loc = "right" -> original_right_edge - pixelToTime(px)
                      [] OTHER -> 0
  IN CASE loc = "left" -> [t EXCEPT !.position = snapToFPSGridTime(t.position - delta_time),
                                    !.start = 0,
                                    !.end = snapToFPSGridTime(t.end + delta_time)]
       [] loc = "right" -> [t EXCEPT !.end = snapToFPSGridTime(t.end - delta_time)]
       [] OTHER -> t

TransitionResizeStart(id, side) ==
  /\ Intact
  /\ gesture.kind = "none"
  /\ IndexOfId(project.effects, id) > 0
  /\ \E s \in {setSelections(project, lastSelectedItem, dragging, Qt, enable_razor, id, "transition")} :
     \E q \in {Digest(s.p, sortPending)} :
     \E t \in {q.effects[IndexOfId(q.effects, id)]} :
        /\ project' = q
        /\ lastSelectedItem' = s.lsi
        /\ hostSel' = HostApplyAll(hostSel, s.out)
        /\ resize_disabled' = LayerLocked(q, t.layer)
        /\ gesture' = [kind |-> "transition_resize", type |-> "transition", id |-> id,
                       locked |-> LayerLocked(q, t.layer)]
  /\ sortPending' = FALSE
  /\ dragging' = TRUE
  /\ dragLoc' = side
  /\ bounding_box' = [kind |-> "trimming", type |-> "transition", id |-> id]
  /\ calls' = <<>>
  /\ last' = [op |-> "transitionResizeStart", id |-> id, side |-> side]
  /\ UNCHANGED <<Qt, enable_razor, enable_timing, timing_original_start, transactionId,
                 snapline, kp, pixelsPerSecond,
                 keyframeUi>>
  /\ gestures' = Min(gestures + 1, MaxGestures)

TransitionResizeStop(px) ==
  /\ Intact
  /\ gesture.kind = "transition_resize"
  /\ IndexOfId(project.effects, gesture.id) > 0
  /\ dragging' = FALSE
  /\ gesture' = NoGesture
  /\ resize_disabled' = FALSE
  /\ last' = [op |-> "transitionResizeStop", id |-> gesture.id, px |-> px,
              disabled |-> resize_disabled, locked |-> gesture.locked]
  /\ IF resize_disabled
     THEN UNCHANGED <<project, sortPending, dragLoc, calls>>
     ELSE LET i == IndexOfId(project.effects, gesture.id)
              t == ResizedTransition(project.effects[i], dragLoc, px)
          IN /\ project' = Digest([project EXCEPT !.effects[i] = t], sortPending)
             /\ sortPending' = FALSE
             /\ calls' = calls \o Gate(Qt, <<Call("update_transition_data", "transition", t.id, NoTx, t)>>)
             /\ dragLoc' = "null"
  /\ snapline' = IF resize_disabled THEN snapline ELSE hideSnapline(snapline)
  /\ UNCHANGED <<Qt, selVars, enable_razor, enable_timing, timing_original_start,
                 transactionId, bounding_box, kp, pixelsPerSecond,
                 keyframeUi>>
  /\ UNCHANGED gestures

\* ----------------------------------------------------------- keyframe drag
KeyframeField(type) == IF type = "clip" THEN "alpha" ELSE "brightness"

\* locateObject: the path of the owner, <<>> when it is gone
locateObject(p, objType, objId) ==
  FindItem(p, IF objType = "clip" THEN "clip" ELSE "transition", objId)

getBounds(object) ==
  LET start == snapToFPSGridTime(object.start)
      end == snapToFPSGridTime(object.end)
  IN IF end < start THEN [start |-> end, end |-> start] ELSE [start |-> start, end |-> end]

exclusiveMaxSec(bounds) == bounds.end - FrameTicks

snapClampExclusive(secs, bounds) ==
  LET maxSec == exclusiveMaxSec(bounds)
      s1 == IF secs < bounds.start THEN bounds.start ELSE secs
      s2 == IF s1 > maxSec THEN maxSec ELSE s1
      s3 == snapToFPSGridTime(s2)
      s4 == IF s3 > maxSec THEN maxSec ELSE s3
  IN IF s4 < bounds.start THEN bounds.start ELSE s4

secondsToFrame(secs, bounds) ==
  LET startFrame == (bounds.start \div FrameTicks) + 1
      endFrame == bounds.end \div FrameTicks
      f == (secs \div FrameTicks) + 1
      g == IF f < startFrame THEN startFrame ELSE f
  IN IF g > endFrame THEN endFrame ELSE g

\* the points left where they are
KeepKeyframes(object, field, old_frame, new_frame) == object

\* moveKeyframes on the points of the object's animated property
moveKeyframes(object, field, old_frame, new_frame) ==
  [object EXCEPT ![field] = [i \in 1..Len(@) |-> IF @[i] = old_frame THEN new_frame ELSE @[i]]]

\* no transaction id at all
NoTransactionId(tx) == NoTx

\* the transaction id pushKeyframeChange hands to the host
PushTransactionId(tx) == tx

\* draggable start of a keyframe of an owner
KeyframeDragStart(objType, objId, point) ==
  /\ Intact
  /\ gesture.kind = "none"
  /\ locateObject(project, objType, objId) # <<>>
  /\ \E i \in 1..Len(Get(project, locateObject(project, objType, objId))[KeyframeField(objType)]) :
        Get(project, locateObject(project, objType, objId))[KeyframeField(objType)][i] = point
  /\ dragging' = TRUE
  /\ transactionId' = transactionId + 1
  /\ gesture' = [kind |-> "keyframe", type |-> objType, id |-> objId, currentFrame |-> point,
                 locked |-> FALSE]
  /\ calls' = Gate(Qt, <<Call("StartKeyframeDrag", objType, objId, transactionId + 1, 0)>>)
  /\ last' = [op |-> "keyframeDragStart", id |-> objId, point |-> point]
  /\ UNCHANGED <<storeVars, selVars, enable_razor, enable_timing, resize_disabled, dragLoc,
                 timing_original_start, bounding_box, snapline, kp, pixelsPerSecond,
                 keyframeUi>>
  /\ gestures' = Min(gestures + 1, MaxGestures)

\* draggable stop of the keyframe; left is the helper's pixel offset
KeyframeDragStop(left) ==
  /\ Intact
  /\ gesture.kind = "keyframe"
  /\ dragging' = FALSE
  /\ gesture' = NoGesture
  /\ LET ref == locateObject(project, gesture.type, gesture.id)
     IN IF ref = <<>>
        THEN /\ calls' = calls
             /\ last' = [op |-> "keyframeDragStop", id |-> gesture.id, found |-> FALSE,
                         changed |-> FALSE]
        ELSE LET obj == Get(project, ref)
                 bounds == getBounds(obj)
                 secs == snapClampExclusive(pixelToTime(left) + obj.start, bounds)
                 newFrame == secondsToFrame(secs, bounds)
                 copy == moveKeyframes(obj, KeyframeField(gesture.type), gesture.currentFrame, newFrame)
                 push == Call(IF gesture.type = "clip" THEN "update_clip_data"
                              ELSE "update_transition_data",
                              gesture.type, gesture.id, PushTransactionId(transactionId), copy)
             IN /\ calls' = calls
                             \o (IF newFrame # gesture.currentFrame THEN <<push>> ELSE <<>>)
                             \o Gate(Qt, <<Call("FinalizeKeyframeDrag", gesture.type, gesture.id, NoTx, 0)>>)
                /\ last' = [op |-> "keyframeDragStop", id |-> gesture.id, found |-> TRUE,
                            left |-> left, changed |-> newFrame # gesture.currentFrame,
                            currentFrame |-> gesture.currentFrame, newFrame |-> newFrame]
  /\ UNCHANGED <<storeVars, selVars, enable_razor, enable_timing, resize_disabled, dragLoc,
                 timing_original_start, transactionId, bounding_box, snapline, kp, pixelsPerSecond,
                 keyframeUi>>
  /\ UNCHANGED gestures

\* the host deletes the owner of the keyframe that is being dragged
HostDeletesOwner ==
  /\ gesture.kind = "keyframe"
  /\ ApplyJsonDiff(<<Action("delete",
                            <<Str(IF gesture.type = "clip" THEN "clips" ELSE "effects"),
                              Sel(gesture.id)>>, 0, "Prim")>>)

\* ------------------------------------------------------------- manual move
timeToPixel(t) == t \div TicksPerPixel

NoTrack == -1

\* findTrackAtLocation, with a top counted in tracks: the layer's number, or
\* NoTrack for null
findTrackAtLocation(p, top) ==
  IF \E i \in 1..Len(p.layers) : p.layers[i].number = top THEN top ELSE NoTrack

\* the elements that carry ui-selected, with where they sit
SelectedElements(p) ==
  LET cs == {i \in 1..Len(p.clips) : p.clips[i].selected}
      ts == {i \in 1..Len(p.effects) : p.effects[i].selected}
      ids == {p.clips[i].id : i \in cs} \cup {p.effects[i].id : i \in ts}
      clipOf(id) == p.clips[CHOOSE i \in cs : p.clips[i].id = id]
      tranOf(id) == p.effects[CHOOSE i \in ts : p.effects[i].id = id]
  IN [id \in ids |->
        IF \E i \in cs : p.clips[i].id = id
        THEN [type |-> "clip", left |-> timeToPixel(clipOf(id).position), top |-> clipOf(id).layer]
        ELSE [type |-> "transition", left |-> timeToPixel(tranOf(id).position),
              top |-> tranOf(id).layer]]

\* initBoundingBox, run from the timer startManualMove sets
InitBoundingBox ==
  /\ Intact
  /\ gesture.kind = "manual"
  /\ gesture.timer
  /\ gesture' = [gesture EXCEPT !.timer = FALSE]
  /\ bounding_box' = [kind |-> "manual", start_clips |-> SelectedElements(project),
                      move_clips |-> SelectedElements(project)]
  /\ last' = [op |-> "initBoundingBox"]
  /\ UNCHANGED <<storeVars, selVars, modeVars, resize_disabled, dragLoc,
                 timing_original_start, transactionId, snapline, kp, pixelsPerSecond,
                 keyframeUi, calls>>
  /\ UNCHANGED gestures

\* moveItem: moveBoundingBox settles on a delta, which every element gets,
\* and shows the snapline when it used a snap; a move over a locked layer or
\* off the left edge is refused
MoveItem(delta_x, delta_y) ==
  /\ Intact
  /\ gesture.kind = "manual"
  /\ bounding_box.kind = "manual"
  /\ DOMAIN bounding_box.start_clips # {}
  /\ \A id \in DOMAIN bounding_box.start_clips :
        /\ bounding_box.start_clips[id].left + delta_x \in 0..MaxPx
        /\ ~LayerLocked(project, bounding_box.start_clips[id].top + delta_y)
        /\ ~LayerLocked(project, bounding_box.start_clips[id].top)
  /\ bounding_box' =
       [bounding_box EXCEPT !.move_clips =
          [id \in DOMAIN bounding_box.start_clips |->
             [bounding_box.start_clips[id] EXCEPT !.left = @ + delta_x, !.top = @ + delta_y]]]
  /\ \E snapped \in BOOLEAN : snapline' = showSnapline(snapline, snapped)
  /\ last' = [op |-> "moveItem", delta_x |-> delta_x, delta_y |-> delta_y]
  /\ UNCHANGED <<storeVars, selVars, modeVars, gesture, resize_disabled, dragLoc,
                 timing_original_start, transactionId, kp, pixelsPerSecond,
                 keyframeUi, calls>>
  /\ UNCHANGED gestures

\* getMissingTransitions: the first overlap of half a second or more with a
\* clip of the same layer, from index i on; <<>> for null
RECURSIVE FindOverlap(_, _, _)
FindOverlap(p, original_clip, i) ==
  IF i > Len(p.clips) THEN <<>>
  ELSE LET clip == p.clips[i]
           original_left == original_clip.position
           original_right == Extent(original_clip)
           clip_left == clip.position
           clip_right == Extent(clip)
           size == IF original_left < clip_right /\ original_left > clip_left
                   THEN <<[position |-> original_left, layer |-> clip.layer, start |-> 0,
                           end |-> clip_right - original_left]>>
                   ELSE IF original_right > clip_left /\ original_right < clip_right
                   THEN <<[position |-> clip_left, layer |-> clip.layer, start |-> 0,
                           end |-> original_right - clip_left]>>
                   ELSE <<>>
       IN IF original_clip.layer = clip.layer /\ size # <<>> /\ 2 * size[1].end >= SecondTicks
          THEN size
          ELSE FindOverlap(p, original_clip, i + 1)

Abs(x) == IF x < 0 THEN -x ELSE x

\* the first overlap, whatever transitions exist
AnyOverlap(p, original_clip) == FindOverlap(p, original_clip, 1)

getMissingTransitions(p, original_clip) ==
  LET size == FindOverlap(p, original_clip, 1)
  IN IF size = <<>> THEN <<>>
     ELSE IF \E i \in 1..Len(p.effects) :
                /\ p.effects[i].layer = size[1].layer
                /\ \/ 100 * Abs(p.effects[i].position - size[1].position) < SecondTicks
                   \/ 100 * Abs(Extent(p.effects[i]) - Extent(size[1])) < SecondTicks
          THEN <<>>
          ELSE size

CollectionOf(item_type) == IF item_type = "clip" THEN "clips" ELSE "effects"

RECURSIVE UpdateItems(_, _, _, _, _, _)
\* the forEach of updateRecentItemJSON, from the k-th id on
UpdateItems(st, item_type, item_ids, tid, box, k) ==
  IF k > Len(item_ids) THEN st
  ELSE LET coll == CollectionOf(item_type)
           i == IndexOfId(st.p[coll], item_ids[k])
           it == st.p[coll][i]
           stored == /\ box.kind = "manual"
                     /\ item_ids[k] \in DOMAIN box.move_clips
                     /\ box.move_clips[item_ids[k]].type = item_type
           left == IF stored THEN box.move_clips[item_ids[k]].left ELSE timeToPixel(it.position)
           top == IF stored THEN box.move_clips[item_ids[k]].top ELSE it.layer
           nearest_track == findTrackAtLocation(st.p, top)
           moved == [it EXCEPT !.position = snapToFPSGridTime(pixelToTime(left)),
                               !.layer = IF nearest_track # NoTrack THEN nearest_track ELSE 0]
           q == Digest([st.p EXCEPT ![coll][i] = moved], st.pending)
           update == Call(IF item_type = "clip" THEN "update_clip_data" ELSE "update_transition_data",
                          item_type, moved.id, tid, moved)
           r == ResizeTimeline(q, Qt)
           missing == getMissingTransitions(r.p, moved)
       IN UpdateItems([p |-> r.p, pending |-> FALSE,
                       out |-> st.out \o <<update>> \o r.out
                               \o (IF Qt /\ missing # <<>> /\ Len(item_ids) = 1
                                   THEN <<Call("add_missing_transition", "", "", NoTx, missing[1])>>
                                   ELSE <<>>)],
                      item_type, item_ids, tid, box, k + 1)

\* updateRecentItemJSON(item_type, item_ids, tid): the function reads neither
\* dragging nor the timer of startManualMove, so it runs whatever is in flight;
\* it ends a manual move whose box is built, and leaves a directive gesture or
\* a pending timer as it finds them
UpdateRecentItemJSON(item_type, item_ids, tid) ==
  /\ Intact
  /\ item_type \in {"clip", "transition"}
  /\ \A k \in 1..Len(item_ids) : IndexOfId(project[CollectionOf(item_type)], item_ids[k]) > 0
  /\ LET r == UpdateItems([p |-> project, pending |-> sortPending, out |-> <<>>],
                          item_type, item_ids, tid, bounding_box, 1)
     IN /\ project' = r.p
        /\ sortPending' = r.pending
        /\ calls' = (IF gesture.kind = "none" THEN <<>> ELSE calls) \o r.out
  /\ bounding_box' = NoBox
  /\ snapline' = IF Len(item_ids) > 0 THEN hideSnapline(snapline) ELSE snapline
  /\ gesture' = IF gesture.kind = "manual" /\ ~gesture.timer THEN NoGesture ELSE gesture
  /\ last' = [op |-> "updateRecentItemJSON", item_type |-> item_type, item_ids |-> item_ids,
              tid |-> tid, locked |-> \E k \in 1..Len(item_ids) :
                 LayerLocked(project, project[CollectionOf(item_type)]
                               [IndexOfId(project[CollectionOf(item_type)], item_ids[k])].layer)]
  /\ UNCHANGED <<Qt, selVars, modeVars, resize_disabled, dragLoc, timing_original_start,
                 transactionId, kp, pixelsPerSecond,
                 keyframeUi>>
  /\ gestures' = IF gesture.kind = "none" THEN Min(gestures + 1, MaxGestures) ELSE gestures

\* ---------------------------------------------------- the gesture machine
GestureProject ==
  Project(<<Clip("c1", 1, 2, 1, 4), Clip("c2", 2, 3, 0, 3)>>,
          <<Transition("t1", 1, 2, 3)>>,
          <<Layer("L1", 1, FALSE), Layer("L2", 2, TRUE)>>, 2 * SecondTicks)

InitGesture ==
  /\ project = GestureProject
  /\ Qt = TRUE
  /\ InitRest

Pixels == 0..MaxPx
HostTids == {8, 9}

NextGesture ==
  \/ /\ gestures < MaxGestures
     /\ \E id \in {"c1", "c2"}, side \in {"left", "right"}, pointerLocked \in BOOLEAN :
           ClipResizeStart(id, side, pointerLocked)
  \/ \E px \in Pixels : ClipResizeStop(px)
  \/ gestures < MaxGestures /\ \E side \in {"left", "right"} : TransitionResizeStart("t1", side)
  \/ \E px \in Pixels : TransitionResizeStop(px)
  \/ \E b \in BOOLEAN : SetTimingMode(b)
  \/ /\ gestures < MaxGestures
     /\ \E o \in {<<"clip", "c1">>, <<"transition", "t1">>}, point \in {1, 2} :
           KeyframeDragStart(o[1], o[2], point)
  \/ \E left \in {0, FrameTicks} : KeyframeDragStop(left)
  \/ HostDeletesOwner
  \/ gestures < MaxGestures /\ \E ids \in {{"c2"}, {"c1", "t1"}} : StartManualMove("clip", ids)
  \/ InitBoundingBox
  \/ \E dx \in {-2, 4}, dy \in {-1, 0, 1} : MoveItem(dx, dy)
  \* the host drops an item when no pointer gesture is in flight and the timer has run
  \/ /\ gesture.kind \in {"none", "manual"}
     /\ gesture.kind = "manual" => ~gesture.timer
     /\ gesture.kind = "none" => gestures < MaxGestures
     /\ \/ \E ids \in {<<"c1">>, <<"c1", "c2">>}, tid \in HostTids :
              UpdateRecentItemJSON("clip", ids, tid)
        \/ \E tid \in HostTids : UpdateRecentItemJSON("transition", <<"t1">>, tid)

SpecGesture == InitGesture /\ [][NextGesture]_vars

\* ---------------------------------------------- claims on applyJsonDiff
\* strict resolution of a key: every level has to match
RECURSIVE ResolveFrom(_, _, _)
ResolveFrom(p, path, key) ==
  IF key = <<>> THEN [ok |-> TRUE, path |-> path, miss |-> ""]
  ELSE LET kv == Head(key)
       IN IF kv.k = "str"
          THEN IF HasOwn(p, path, kv.v) THEN ResolveFrom(p, Append(path, kv.v), Tail(key))
               ELSE [ok |-> FALSE, path |-> path, miss |-> "key"]
          ELSE IF Kind(path) = "Array" /\ IndexOfId(Get(p, path), kv.v) > 0
               THEN ResolveFrom(p, Append(path, IndexOfId(Get(p, path), kv.v)), Tail(key))
               ELSE [ok |-> FALSE, path |-> path, miss |-> "id"]

Resolve(p, key) == ResolveFrom(p, <<>>, key)

Parent(path) == SubSeq(path, 1, Len(path) - 1)

\* what section 4.11 asks of an action whose key resolves
Expected(p, a) ==
  LET t == Resolve(p, a.key).path
  IN CASE a.type = "insert" ->
            IF Kind(t) = "Array" THEN Put(p, t, Append(Get(p, t), a.value)) ELSE Put(p, t, a.value)
       [] a.type = "update" ->
            IF Kind(t) = "Object" /\ a.vkind = "Object"
            THEN Put(p, t, Merge(Get(p, t), a.value)) ELSE Put(p, t, a.value)
       [] a.type = "delete" ->
            IF Kind(Parent(t)) = "Array"
            THEN Put(p, Parent(t), RemoveAt(Get(p, Parent(t)), t[Len(t)]))
            ELSE Put(p, Parent(t), RemoveKey(Get(p, Parent(t)), t[Len(t)]))
       [] OTHER -> p

SingleDiffStep == last'.op = "applyJsonDiff" /\ Len(last'.diff) = 1

\* C7: a host command that names an unknown entity id (an applyJsonDiff action
\* whose {id} selector matches nothing, a selectItem with a non-empty id that
\* no entity has) leaves the project tree, the selected flags and
\* lastSelectedItem as they were.
C7_UnknownIdIsNoOp ==
  [][/\ (SingleDiffStep /\ Resolve(project, last'.diff[1].key).miss = "id")
          => (project' = project /\ lastSelectedItem' = lastSelectedItem)
     /\ (last'.op = "selectItem" /\ last'.id # ""
         /\ FindItem(project, last'.type, last'.id) = <<>>)
          => (project' = project /\ lastSelectedItem' = lastSelectedItem)]_vars

\* C8: an applyJsonDiff action whose key resolves to an existing target
\* appends to the target array or replaces the slot (insert), merges or
\* replaces (update), removes the target (delete), and changes nothing else.
C8_ResolvedActionApplies ==
  [][(SingleDiffStep /\ Resolve(project, last'.diff[1].key).ok)
       => project' = Expected(project, last'.diff[1])]_vars

\* the round trip of C9 has run: the two-action diff, then the deferred sort
RoundTripDone ==
  /\ last.op = "sortItems"
  /\ last.after.op = "applyJsonDiff"
  /\ Len(last.after.diff) = 2

AllSorted(p) ==
  Sorted(p.clips, "position") /\ Sorted(p.effects, "position") /\ Sorted(p.layers, "number")

\* the entity the round trip removed, as a path into the tree before it
RoundTripTarget == Resolve(last.after.before, last.after.diff[1].key).path

\* no entity placed after the removed one has its position
LastOfItsPosition ==
  LET t == RoundTripTarget
      arr == Get(last.after.before, Parent(t))
  IN \A j \in (t[2] + 1)..Len(arr) : arr[j].position # arr[t[2]].position

\* C9 (as stated): deleting an entity by diff and inserting the same JSON
\* again, followed by the deferred sort, restores the project, order included.
C9_RoundTripRestores_Original ==
  RoundTripDone => project = last.after.before

\* C9 (amended): ... restores the project when the collections were sorted
\* and no entity placed after the removed one shares its position.
C9_RoundTripRestores ==
  (RoundTripDone /\ AllSorted(last.after.before) /\ LastOfItsPosition)
    => project = last.after.before

C9_Witness ==
  /\ RoundTripDone /\ AllSorted(last.after.before) /\ LastOfItsPosition
  /\ RoundTripTarget[2] < Len(Get(last.after.before, Parent(RoundTripTarget)))
  /\ project = last.after.before
\* ------------------------------------------------------ claims on gestures
\* C1: from a project in which every clip has start <= end, position >= 0 and
\* a layer that exists, the same holds after any sequence of clip resize
\* stops and item drag stops.
C1_ClipsStayWellFormed ==
  Intact =>
    \A i \in 1..Len(project.clips) :
      /\ project.clips[i].start <= project.clips[i].end
      /\ project.clips[i].position >= 0
      /\ \E j \in 1..Len(project.layers) : project.layers[j].number = project.clips[i].layer

TxCalls == {"StartKeyframeDrag", "update_clip_data", "update_transition_data"}
UpdateCalls == {"update_clip_data", "update_transition_data"}

Named(names) == {i \in 1..Len(calls) : calls[i].name \in names}

\* C2: all the host calls of one gesture that carry a transaction id carry
\* the same one, the one the gesture's start announced.
C2_OneTransactionPerGesture ==
  \A i, j \in Named(TxCalls) : calls[i].tx = calls[j].tx

C2_Witness ==
  /\ last.op = "keyframeDragStop"
  /\ \E i, j \in Named(TxCalls) :
        /\ calls[i].name = "StartKeyframeDrag"
        /\ calls[j].name \in UpdateCalls
        /\ calls[i].tx # NoTx

\* C4: a keyframe drag that announced itself with StartKeyframeDrag ends, at
\* its stop, with exactly one FinalizeKeyframeDrag, whatever the host did to
\* the project in between.
C4_StartedDragIsFinalized ==
  (last.op = "keyframeDragStop" /\ Named({"StartKeyframeDrag"}) # {})
    => Cardinality(Named({"FinalizeKeyframeDrag"})) = 1

Entity(type, id) == Get(project, FindItem(project, type, id))

UpdatesOf(id) == {i \in Named(UpdateCalls) : calls[i].id = id}

\* one update_*_data call for the item, carrying the item as the replica has it
SentAsStored(type, id) ==
  /\ Cardinality(UpdatesOf(id)) = 1
  /\ \A i \in UpdatesOf(id) : calls[i].arg = Entity(type, id)


TrimCommitted == last.op = "clipResizeStop" /\ ~last.disabled /\ ~last.timing
RetimeCommitted == last.op = "clipResizeStop" /\ ~last.disabled /\ last.timing
TransitionCommitted == last.op = "transitionResizeStop" /\ ~last.disabled
DragCommitted == last.op = "updateRecentItemJSON"
KeyframeCommitted == last.op = "keyframeDragStop" /\ last.changed

\* C5 (as stated): every commit of a direct manipulation has changed the
\* replica and sent one call that carries the entity's full JSON.
C5_CommitSendsEntity_Original ==
  /\ (TrimCommitted \/ RetimeCommitted) => SentAsStored("clip", last.id)
  /\ TransitionCommitted => SentAsStored("transition", last.id)
  /\ DragCommitted => \A id \in Range(last.item_ids) : SentAsStored(last.item_type, id)
  /\ KeyframeCommitted => \E t \in {"clip", "transition"} :
        FindItem(project, t, last.id) # <<>> /\ SentAsStored(t, last.id)

\* C5 (amended): with the host bound, a trim stop, a transition resize stop
\* and an item drag stop change the replica and send one update_*_data with
\* the entity as stored; a retime stop changes the replica and sends one
\* RetimeClip(id, end, position) and no entity JSON; a keyframe stop with a
\* changed frame leaves the replica alone and sends one update_*_data with a
\* copy in which the keyframe is moved.
C5_CommitSendsEntity ==
  Qt =>
    /\ TrimCommitted => SentAsStored("clip", last.id)
    /\ TransitionCommitted => SentAsStored("transition", last.id)
    /\ DragCommitted => \A id \in Range(last.item_ids) : SentAsStored(last.item_type, id)
    /\ RetimeCommitted =>
         /\ UpdatesOf(last.id) = {}
         /\ Cardinality(Named({"RetimeClip"})) = 1
         /\ \A i \in Named({"RetimeClip"}) :
               /\ calls[i].id = last.id
               /\ calls[i].arg = <<Entity("clip", last.id).end, Entity("clip", last.id).position>>
    /\ KeyframeCommitted =>
         /\ Cardinality(UpdatesOf(last.id)) = 1
         /\ \A i \in UpdatesOf(last.id) :
               /\ calls[i].arg # Entity(calls[i].type, last.id)
               /\ calls[i].arg = moveKeyframes(Entity(calls[i].type, last.id),
                                               KeyframeField(calls[i].type),
                                               last.currentFrame, last.newFrame)

C5_Witness ==
  /\ Qt
  /\ RetimeCommitted
  /\ Entity("clip", last.id).position # GestureProject.clips[1].position
  /\ Named({"RetimeClip"}) # {}

Geometry(p) ==
  {<<x.id, x.position, x.start, x.end, x.layer>> : x \in Range(p.clips) \cup Range(p.effects)}

\* C6: a resize or drag gesture whose item lies on a locked layer, or whose
\* pointer is over a locked layer when it starts, changes no position, start,
\* end or layer and sends no update_clip_data, update_transition_data or
\* RetimeClip.
C6_LockedGestureIsInert ==
  [][(/\ last'.op \in {"clipResizeStop", "transitionResizeStop", "updateRecentItemJSON"}
      /\ last'.locked)
       => /\ Geometry(project') = Geometry(project)
          /\ \A i \in 1..Len(calls') :
                calls'[i].name \notin UpdateCalls \cup {"RetimeClip"}]_vars

\* C10: once an operation and the sort it deferred are done, clips and
\* effects are in ascending position order and layers in ascending number
\* order.
C10_CollectionsStaySorted ==
  (Intact /\ Qt /\ ~sortPending /\ gesture.kind = "none") => AllSorted(project)
OnGrid(t) == snapToFPSGridTime(t) = t

GridAligned(x) == OnGrid(x.position) /\ OnGrid(x.start) /\ OnGrid(x.end)

\* C11: after a clip trim or retime stop, a transition resize stop or an item
\* drag stop, the position, start and end of the entity the stop wrote are
\* whole numbers of frames.
C11_StoppedEntityOnGrid ==
  /\ (TrimCommitted \/ RetimeCommitted) => GridAligned(Entity("clip", last.id))
  /\ TransitionCommitted => GridAligned(Entity("transition", last.id))
  /\ DragCommitted => \A id \in Range(last.item_ids) : GridAligned(Entity(last.item_type, id))
\* ---------------------------------------------------------------- playhead
playhead_animating == FALSE

\* movePlayhead(position_seconds): no $apply, the DOM is moved directly
MovePlayhead(position_seconds) ==
  /\ Intact
  /\ project' = [project EXCEPT !.playhead_position = snapToFPSGridTime(position_seconds)]
  /\ last' = [op |-> "movePlayhead", position_seconds |-> position_seconds]
  /\ UNCHANGED <<Qt, sortPending, selVars, modeVars, gestVars, calls, gestures>>

\* movePlayheadToFrame(position_frames): frames count from 1
MovePlayheadToFrame(position_frames) ==
  /\ ~playhead_animating
  /\ MovePlayhead((position_frames - 1) * FrameTicks)

\* projects the host may load: any playhead position
PlayheadProjects ==
  {[p EXCEPT !.playhead_position = h] : p \in LoadableProjects, h \in {-1, 0, FrameTicks + 1}}

NextPlayhead ==
  \/ EnableQt
  \/ \E t \in -MaxPx..MaxPx : MovePlayhead(t)
  \/ \E f \in -1..MaxPx : MovePlayheadToFrame(f)
  \/ \E value \in PlayheadProjects : LoadJson(value)

SpecPlayhead == Init /\ [][NextPlayhead]_vars

\* C12: whatever numbers movePlayhead, movePlayheadToFrame and loadJson are
\* given, project.playhead_position is >= 0 and a whole number of frames.
C12_PlayheadOnGridAndNonNegative ==
  Intact => project.playhead_position >= 0 /\ OnGrid(project.playhead_position)

\* the grid half of C12 alone
C12_PlayheadOnGrid ==
  Intact => OnGrid(project.playhead_position)
\* ------------------------------------------------- the dispatch of selectItem
\* setDragging(value)
SetDragging(value) ==
  /\ dragging # value
  /\ dragging' = value
  /\ last' = [op |-> "setDragging"]
  /\ UNCHANGED <<storeVars, selVars, enable_razor, enable_timing, gestVars, calls, gestures>>

\* setRazorMode(enable_razor)
SetRazorMode(b) ==
  /\ Intact
  /\ enable_razor # b
  /\ enable_razor' = b
  /\ project' = Digest(project, sortPending)
  /\ sortPending' = FALSE
  /\ last' = [op |-> "setRazorMode"]
  /\ UNCHANGED <<Qt, selVars, dragging, enable_timing, gestVars, calls, gestures>>

CtrlShiftClick == [ShiftClick EXCEPT !.ctrlKey = TRUE]
CtrlAltClick == [AltClick EXCEPT !.ctrlKey = TRUE]

NextDispatch ==
  \/ \E b \in BOOLEAN : SetDragging(b)
  \/ \E b \in BOOLEAN : SetRazorMode(b)
  \/ \E t \in Targets, clear \in BOOLEAN, ev \in {NoEvent, Click, CtrlClick} :
        SelectItem(t[1], t[2], clear, ev, FALSE)
  \/ \E t \in Targets : SelectItem(t[1], t[2], TRUE, Click, TRUE)

SpecDispatch == InitSelect /\ [][NextDispatch]_vars

Events == {NoEvent, Click, CtrlClick, ShiftClick, AltClick, CtrlShiftClick, CtrlAltClick}

Items ==
  {<<"c1", "clip">>, <<"c2", "clip">>, <<"c3", "clip">>, <<"t1", "transition">>, <<"e1", "effect">>}

NextRange ==
  \/ \E t \in Items, clear \in BOOLEAN, ev \in Events : SelectItem(t[1], t[2], clear, ev, FALSE)
  \/ \E t \in Items, clear \in BOOLEAN, ev \in {NoEvent, CtrlClick} :
        SelectItem(t[1], t[2], clear, ev, TRUE)

RangeProject ==
  Project(<<[Clip("c1", 1, 0, 0, 6) EXCEPT !.effects = <<Effect("e1")>>],
            Clip("c3", 2, 3, 0, 6), Clip("c2", 1, 6, 0, 6)>>,
          <<Transition("t1", 2, 3, 3)>>, TwoLayers, 30)

InitRange ==
  /\ project = RangeProject
  /\ Qt = TRUE
  /\ InitRest

SpecRange == InitRange /\ [][NextRange]_vars

\* no item of the type is selected (for effect: no per-clip effect either)
NoneSelected(p, type) ==
  CASE type = "clip" -> \A i \in 1..Len(p.clips) : ~p.clips[i].selected
    [] type = "transition" -> \A i \in 1..Len(p.effects) : ~p.effects[i].selected
    [] type = "effect" ->
         /\ \A i \in 1..Len(p.effects) : ~p.effects[i].selected
         /\ \A i \in 1..Len(p.clips) :
               \A j \in 1..Len(p.clips[i].effects) : ~p.clips[i].effects[j].selected
    [] OTHER -> TRUE

\* C13: selectItem("", type, true) leaves no item of the type selected and
\* keeps lastSelectedItem, whatever the dragging flag and the razor mode are.
C13_EmptyIdClearsFirst ==
  [][(last'.op = "selectItem" /\ last'.id = "" /\ last'.clear)
       => /\ NoneSelected(project', last'.type)
          /\ lastSelectedItem' = lastSelectedItem]_vars

\* the same with the dragging flag off
C13_EmptyIdClearsWhenIdle ==
  [][(last'.op = "selectItem" /\ last'.id = "" /\ last'.clear /\ ~dragging)
       => /\ NoneSelected(project', last'.type)
          /\ lastSelectedItem' = lastSelectedItem]_vars
\* C14: while the dragging flag is set, selectItem with a non-empty id changes
\* no selected flag, keeps lastSelectedItem and sends nothing to the host.
C14_DraggingSkipsSelection ==
  [][(last'.op = "selectItem" /\ last'.id # "" /\ dragging)
       => /\ project' = project
          /\ lastSelectedItem' = lastSelectedItem
          /\ hostSel' = hostSel
          /\ last'.out = <<>>]_vars

C14_Witness ==
  /\ last.op = "selectItem"
  /\ dragging
  /\ last.clear
  /\ FindItem(project, last.type, last.id) # <<>>
  /\ ~Get(project, FindItem(project, last.type, last.id)).selected
  /\ AnySelected(project)
\* the call the razor branch makes: the clip id or "", the transition id or ""
RazorCall(type, id) ==
  Call("RazorSliceAtCursor", type, IF type \in {"clip", "transition"} THEN id ELSE "", NoTx, 0)

Placed(p) == Range(p.clips) \cup Range(p.effects)

\* the step is a ripple selection on an existing clip or transition
RippleStep ==
  /\ last'.op = "selectItem"
  /\ last'.ev.altKey \/ last'.force_ripple
  /\ last'.type \in {"clip", "transition"}
  /\ FindItem(project, last'.type, last'.id) # <<>>
  /\ ~dragging
  /\ ~(enable_razor /\ Qt /\ last'.ev.defined)

OnRipple(a, x) == x.layer = a.layer /\ x.position >= a.position

\* C16: a ripple selection on anchor a selects every clip and transition on
\* a's layer at or after a's position, leaves no other clip or transition
\* selected when clear_selections is set and ctrl is not held, and keeps
\* lastSelectedItem.
C16_RippleSelectsToTheRight ==
  [][RippleStep =>
       LET a == Get(project, FindItem(project, last'.type, last'.id))
       IN /\ \A x \in Placed(project') : OnRipple(a, x) => x.selected
          /\ (last'.clear /\ ~last'.ev.ctrlKey)
               => \A x \in Placed(project') : ~OnRipple(a, x) => ~x.selected
          /\ lastSelectedItem' = lastSelectedItem]_vars
\* the step is a shift-click on an existing clip or transition while
\* lastSelectedItem is a clip or a transition
RangeStep ==
  /\ last'.op = "selectItem"
  /\ last'.ev.shiftKey /\ ~last'.ev.altKey /\ ~last'.force_ripple
  /\ last'.type \in {"clip", "transition"}
  /\ FindItem(project, last'.type, last'.id) # <<>>
  /\ lastSelectedItem.type \in {"clip", "transition"}
  /\ FindItem(project, lastSelectedItem.type, lastSelectedItem.id) # <<>>
  /\ ~dragging
  /\ ~(enable_razor /\ Qt /\ last'.ev.defined)

\* x lies within the rectangle the two anchors span
Contained(a, b, x) ==
  /\ x.position >= Min(a.position, b.position)
  /\ x.position + (x.end - x.start)
       <= Max(a.position + (a.end - a.start), b.position + (b.end - b.start))
  /\ x.layer >= Min(a.layer, b.layer)
  /\ x.layer <= Max(a.layer, b.layer)

SelectedIds(p) == {x.id : x \in {y \in Placed(p) : y.selected}}

\* C17: a shift-click on b with anchor a selects exactly the clips and
\* transitions within the rectangle of a and b when clear_selections is set
\* and ctrl is not held; with ctrl held it adds them to what was selected.
C17_ShiftSelectsRectangle ==
  [][RangeStep =>
       LET a == Get(project, FindItem(project, lastSelectedItem.type, lastSelectedItem.id))
           b == Get(project, FindItem(project, last'.type, last'.id))
           inside == {x.id : x \in {y \in Placed(project) : Contained(a, b, y)}}
       IN /\ (last'.clear /\ ~last'.ev.ctrlKey) => SelectedIds(project') = inside
          /\ last'.ev.ctrlKey => SelectedIds(project') = SelectedIds(project) \cup inside]_vars

C17_Witness ==
  /\ last.op = "selectItem"
  /\ last.ev.shiftKey /\ ~last.ev.ctrlKey /\ ~last.ev.altKey /\ ~last.force_ripple /\ last.clear
  /\ last.type \in {"clip", "transition"}
  /\ Cardinality(SelectedIds(project)) = 2
  /\ \E x \in Placed(project) : x.layer = 2 /\ ~x.selected
  /\ \E x \in Placed(project) : x.layer = 2 /\ x.selected
\* the step takes the default branch of selectItem on an existing item
DefaultStep ==
  /\ last'.op = "selectItem"
  /\ last'.id # ""
  /\ ~last'.ev.altKey /\ ~last'.force_ripple
  /\ ~(last'.ev.shiftKey /\ lastSelectedItem # NoItem /\ last'.type \in {"clip", "transition"})
  /\ FindItem(project, last'.type, last'.id) # <<>>
  /\ ~dragging
  /\ ~(enable_razor /\ Qt /\ last'.ev.defined)

\* every effect of a project: the project's effects and the clips' effects
AllEffects(p) == Range(p.effects) \cup UNION {Range(c.effects) : c \in Range(p.clips)}

\* the items of a type
OfType(p, type) ==
  CASE type = "clip" -> Range(p.clips)
    [] type = "transition" -> Range(p.effects)
    [] OTHER -> AllEffects(p)

\* clear_selections without ctrl leaves nothing but the target selected
OthersCleared ==
  (last'.clear /\ ~last'.ev.ctrlKey)
    => \A x \in OfType(project', last'.type) \cup AllEffects(project') :
          x.id # last'.id => ~x.selected

BoxGestures == {"clip_resize", "transition_resize"}

\* the pointer gestures and the host's calls, the host calling at any time:
\* none of startManualMove's timer, moveItem and updateRecentItemJSON tests
\* dragging
NextBox ==
  \/ /\ gestures < MaxGestures
     /\ \E id \in {"c1", "c2"}, side \in {"left", "right"} : ClipResizeStart(id, side, FALSE)
  \/ \E px \in {0, FrameTicks} : ClipResizeStop(px)
  \/ gestures < MaxGestures /\ \E side \in {"left", "right"} : TransitionResizeStart("t1", side)
  \/ \E px \in {0, FrameTicks} : TransitionResizeStop(px)
  \/ gestures < MaxGestures /\ \E ids \in {{"c1"}, {"c1", "t1"}} : StartManualMove("clip", ids)
  \/ InitBoundingBox
  \/ \E dx \in {-2, 4} : MoveItem(dx, 0)
  \* one call of the host at a time while a gesture or the timer is in flight,
  \* which keeps calls bounded
  \/ /\ gesture.kind = "none" => gestures < MaxGestures
     /\ (gesture.kind \in BoxGestures \/ (gesture.kind = "manual" /\ gesture.timer))
          => last.op # "updateRecentItemJSON"
     /\ \/ \E tid \in HostTids : UpdateRecentItemJSON("clip", <<"c1">>, tid)
        \/ \E tid \in HostTids : UpdateRecentItemJSON("transition", <<"t1">>, tid)

SpecBox == InitGesture /\ [][NextBox]_vars

\* a step that fills the box: a directive's start or the timer of startManualMove
GestureStarts == {"clipResizeStart", "transitionResizeStart"}

\* C19: bounding_box is held by one gesture at a time: between a directive
\* gesture's start and its stop no step rebuilds, moves or resets the box, and
\* right after updateRecentItemJSON has reset it, only a gesture start or a
\* new startManualMove call leads to a box that is not empty
C19_BoxHeldByOneGesture ==
  [][/\ (gesture.kind \in BoxGestures /\ gesture'.kind \in BoxGestures)
          => bounding_box' = bounding_box
     /\ (last.op = "updateRecentItemJSON" /\ bounding_box' # NoBox)
          => last'.op \in GestureStarts]_vars

\* C19, the first half alone
C19_NoResetWhileHeld ==
  [][(gesture.kind \in BoxGestures /\ gesture'.kind \in BoxGestures)
        => bounding_box' = bounding_box]_vars

\* C19, the second half alone
C19_EmptyUntilNextStart ==
  [][(last.op = "updateRecentItemJSON" /\ bounding_box' # NoBox)
        => last'.op \in GestureStarts]_vars

\* ------------------------------------------------ the left handle at 0
\* the clip {position = 2.0, start = 1.0, end = 5.0}, as a normal clip and as
\* a single-image clip
TrimClips ==
  {[Clip("c1", 1, 2 * SecondTicks, SecondTicks, 5 * SecondTicks)
      EXCEPT !.has_single_image = img, !.reader_duration = 5 * SecondTicks] : img \in BOOLEAN}

InitTrim ==
  /\ project \in {Project(<<c>>, <<>>, TwoLayers, 6 * SecondTicks) : c \in TrimClips}
  /\ Qt = TRUE
  /\ InitRest

\* where the pointer is released: up to three seconds left and one second
\* right of either edge of the clip
TrimPixels ==
  {timeToPixel(edge) + d : edge \in {2 * SecondTicks, 6 * SecondTicks},
                           d \in (-3 * SecondTicks)..SecondTicks}

NextTrim ==
  \/ /\ gestures < MaxGestures
     /\ \E side \in {"left", "right"} : ClipResizeStart("c1", side, FALSE)
  \/ \E px \in TrimPixels : ClipResizeStop(px)

SpecTrim == InitTrim /\ [][NextTrim]_vars

\* the left handle of the example clip released three seconds left of its
\* left edge, in trim mode
LeftTrimByThree ==
  /\ gesture.kind = "clip_resize" /\ dragLoc = "left"
  /\ ~enable_timing /\ ~resize_disabled
  /\ project.clips[1].position = 2 * SecondTicks
  /\ project.clips[1].start = SecondTicks
  /\ project.clips[1].end = 5 * SecondTicks
  /\ last'.op = "clipResizeStop"
  /\ last'.px = timeToPixel(2 * SecondTicks - 3 * SecondTicks)

\* C20: the example clip with its left handle dragged left by 3.0 s is left
\* at position 0.0, start 0.0, end 4.0 when it is a normal clip, and at
\* position 0.0, start 0.0, end 5.0 when it is a single-image clip
C20_LeftTrimHitsZero ==
  [][LeftTrimByThree =>
       /\ project'.clips[1].position = 0
       /\ project'.clips[1].start = 0
       /\ project'.clips[1].end = IF isSingleImageClip(project.clips[1])
                                  THEN 5 * SecondTicks ELSE 4 * SecondTicks]_vars

\* what the stop handler leaves instead: the normal clip moves left by its
\* old start and keeps its end; the single-image clip moves left by the whole
\* drag and its end grows by the overflow
C20_LeftTrimAsCoded ==
  [][LeftTrimByThree =>
       /\ project'.clips[1].start = 0
       /\ project'.clips[1].position = IF isSingleImageClip(project.clips[1])
                                       THEN -SecondTicks ELSE SecondTicks
       /\ project'.clips[1].end = IF isSingleImageClip(project.clips[1])
                                  THEN 7 * SecondTicks ELSE 5 * SecondTicks]_vars

\* --------------------------------------------- the right handle and the media
\* the clip {start = 1.0, end = 4.0} at position 0 with a reader of 6.0 s, of
\* 6.0 s and a part of a frame, or of unknown duration; as a normal clip, a
\* single-image clip, and a clip with a time curve over frames 1..5
MediaClips ==
  {[Clip("c1", 1, 0, SecondTicks, 4 * SecondTicks)
      EXCEPT !.has_single_image = img, !.reader_duration = d] :
     img \in BOOLEAN, d \in {0, 6 * SecondTicks, 6 * SecondTicks + 2}}
  \cup {[time |-> <<1, 5>>] @@ [Clip("c1", 1, 0, SecondTicks, 4 * SecondTicks)
                                  EXCEPT !.reader_duration = 6 * SecondTicks]}

InitMedia ==
  /\ project \in {Project(<<c>>, <<>>, TwoLayers, 6 * SecondTicks) : c \in MediaClips}
  /\ Qt = TRUE
  /\ InitRest

\* where the pointer is released, counted from the clip's right edge at 3.0 s
MediaPixels ==
  {timeToPixel(3 * SecondTicks) + d :
     d \in {-SecondTicks, 0, 1, 3 * SecondTicks, 3 * SecondTicks + 2, 10 * SecondTicks}}

NextMedia ==
  \/ /\ gestures < MaxGestures
     /\ \E side \in {"left", "right"} : ClipResizeStart("c1", side, FALSE)
  \/ \E px \in MediaPixels : ClipResizeStop(px)
  \/ \E b \in BOOLEAN : SetTimingMode(b)

SpecMedia == InitMedia /\ [][NextMedia]_vars

\* a right-handle stop in trim mode on a clip whose reader duration is known
RightTrimStop ==
  /\ gesture.kind = "clip_resize" /\ dragLoc = "right"
  /\ ~enable_timing /\ ~resize_disabled
  /\ project.clips[1].reader_duration > 0
  /\ last'.op = "clipResizeStop"

\* maxDuration as the spec has it: the retimed duration when there is a time
\* curve, the reader's duration otherwise
MaxDurationOf(c) ==
  IF hasTimeKeyframes(c) THEN getRetimedDurationSeconds(c) ELSE c.reader_duration

\* C21: after a right-handle stop in trim mode on a clip with a known reader
\* duration, end is at most start + maxDuration
C21_RightTrimWithinMedia ==
  [][RightTrimStop =>
       project'.clips[1].end <= project'.clips[1].start + MaxDurationOf(project.clips[1])]_vars

\* C21 for clips that are not single images and whose start + maxDuration is
\* a whole number of frames
C21_RightTrimWithinMediaOnGrid ==
  [][(/\ RightTrimStop
      /\ ~isSingleImageClip(project.clips[1])
      /\ OnGrid(project.clips[1].start + MaxDurationOf(project.clips[1])))
       => project'.clips[1].end <= project'.clips[1].start + MaxDurationOf(project.clips[1])]_vars

\* C21, the example: reader of 6.0 s, start 1.0, end 4.0, dragged right by
\* 10 s, ends at 7.0
C21_Example ==
  [][(/\ RightTrimStop
      /\ ~isSingleImageClip(project.clips[1]) /\ ~hasTimeKeyframes(project.clips[1])
      /\ project.clips[1].reader_duration = 6 * SecondTicks
      /\ project.clips[1].start = SecondTicks /\ project.clips[1].end = 4 * SecondTicks
      /\ last'.px = timeToPixel(project.clips[1].position + 3 * SecondTicks + 10 * SecondTicks))
       => project'.clips[1].end = 7 * SecondTicks]_vars

\* ------------------------------------------------------------ the snap engine
\* the sentinel of "nothing nearby"
NoDiff == 900

\* the threshold test of a target, Math.abs(diff) <= threshold
Near(diff, threshold) == Abs(diff) <= threshold

RECURSIVE Ascending(_)
\* the keys of an object whose keys are frame numbers, in the order a for-in
\* loop visits them
Ascending(S) ==
  IF S = {} THEN <<>>
  ELSE LET m == CHOOSE x \in S : \A y \in S : x <= y IN <<m>> \o Ascending(S \ {m})

\* getKeyframes without a preview and without a property filter: the frames
\* of the points of the animated properties that lie inside the clip, half a
\* frame of tolerance on either side, in the order of the object's keys
getKeyframes(object) ==
  LET props == {f \in {"alpha", "brightness"} : f \in DOMAIN object /\ Len(object[f]) > 1}
      frames == UNION {Range(object[f]) : f \in props}
      inside(x) == /\ 2 * (x - 1) * FrameTicks >= 2 * object.start - FrameTicks
                   /\ 2 * (x - 1) * FrameTicks <= 2 * Max(object.end, object.start) + FrameTicks
  IN Ascending({x \in frames : inside(x)})

hasSelectedEffect(clip) == \E i \in 1..Len(clip.effects) : clip.effects[i].selected

\* collectKeyframes: the pixel of every keyframe of the object
collectKeyframes(object) ==
  LET entries == getKeyframes(object)
  IN [k \in 1..Len(entries) |->
        timeToPixel(object.position + ((entries[k] - 1) * FrameTicks - object.start))]

\* keyframeTargets: the keyframes of the selected clips, then of the selected
\* transitions
KeyframeTargets(p, includeKeyframes) ==
  IF ~includeKeyframes THEN <<>>
  ELSE Flatten([i \in 1..Len(p.clips) |->
                  IF p.clips[i].selected \/ hasSelectedEffect(p.clips[i])
                  THEN collectKeyframes(p.clips[i]) ELSE <<>>])
       \o Flatten([i \in 1..Len(p.effects) |->
                     IF p.effects[i].selected THEN collectKeyframes(p.effects[i]) ELSE <<>>])

\* the entries one pixel position pushes on diffs, in the order of the scan
DiffsOf(p, position, threshold, ignore_ids, keyframeTargets) ==
  LET edges(x) == <<timeToPixel(x.position), timeToPixel(x.position + (x.end - x.start))>>
      near(targets) == SelectSeq([k \in 1..Len(targets) |->
                                    [diff |-> position - targets[k], position |-> targets[k]]],
                                 LAMBDA d : Near(d.diff, threshold))
      items(coll) == Flatten([i \in 1..Len(coll) |->
                                IF coll[i].id \in ignore_ids THEN <<>> ELSE near(edges(coll[i]))])
      markers == near([i \in 1..Len(p.markers) |-> timeToPixel(p.markers[i].position)])
      playhead == IF "ruler" \notin ignore_ids /\ "playhead" \notin ignore_ids
                  THEN near(<<timeToPixel(p.playhead_position)>>) ELSE <<>>
      end_of_track == <<[diff |-> position - timeToPixel(p.duration),
                         position |-> timeToPixel(p.duration)]>>
  IN items(p.clips) \o items(p.effects) \o markers \o playhead \o end_of_track
     \o near(keyframeTargets)

RECURSIVE Smallest(_, _, _, _)
\* the loop over diffs, from the k-th entry on
Smallest(diffs, k, threshold, best) ==
  IF k > Len(diffs) THEN best
  ELSE Smallest(diffs, k + 1, threshold,
                IF /\ Abs(diffs[k].diff) < best.smallest_abs_diff
                   /\ Abs(diffs[k].diff) <= threshold
                   /\ diffs[k].position # 0
                THEN [smallest_diff |-> diffs[k].diff,
                      smallest_abs_diff |-> Abs(diffs[k].diff),
                      snapping_position |-> diffs[k].position]
                ELSE best)

RECURSIVE ScanPositions(_, _, _, _, _, _, _, _)
\* the loop over pixel_positions, from the k-th on; diffs is never emptied
ScanPositions(p, pixel_positions, k, threshold, ignore_ids, keyframeTargets, diffs, best) ==
  IF k > Len(pixel_positions) THEN best
  ELSE LET all == diffs \o DiffsOf(p, pixel_positions[k], threshold, ignore_ids, keyframeTargets)
       IN ScanPositions(p, pixel_positions, k + 1, threshold, ignore_ids, keyframeTargets, all,
                        Smallest(all, 1, threshold, best))

\* getNearbyPosition: <<smallest_diff, snapping_position>>
getNearbyPosition(p, pixel_positions, threshold, ignore_ids, includeKeyframes) ==
  LET best == ScanPositions(p, pixel_positions, 1, threshold, ignore_ids,
                            KeyframeTargets(p, includeKeyframes), <<>>,
                            [smallest_diff |-> NoDiff, smallest_abs_diff |-> NoDiff,
                             snapping_position |-> 0])
  IN <<IF best.smallest_diff = NoDiff THEN 0 ELSE best.smallest_diff, best.snapping_position>>

\* a snap query of a directive; the project is left as it is
GetNearbyPosition(pixel_positions, threshold, ignore_ids, includeKeyframes) ==
  /\ last' = [op |-> "getNearbyPosition", pixel_positions |-> pixel_positions,
              threshold |-> threshold, ignore_ids |-> ignore_ids,
              includeKeyframes |-> includeKeyframes,
              result |-> getNearbyPosition(project, pixel_positions, threshold, ignore_ids,
                                           includeKeyframes)]
  /\ UNCHANGED <<storeVars, selVars, modeVars, gestVars, gestures, calls>>

\* clip c1 at 0 or at 3, selected or not, with keyframes at frames 2 and 3;
\* clip c2 at 9; a transition over 6..9; a marker at 0 or at 13; the playhead
\* at 0 or at 5.0 s; the timeline ends at 7.0 s
SnapProjects ==
  {[markers |-> <<[position |-> m]>>] @@
   [Project(<<[Clip("c1", 1, p1, 0, 6) EXCEPT !.selected = sel, !.alpha = <<2, 3>>],
              Clip("c2", 1, 9, 0, 6)>>,
            <<Transition("t1", 1, 6, 3)>>, TwoLayers, 7 * SecondTicks)
      EXCEPT !.playhead_position = ph] :
     p1 \in {0, 3}, sel \in BOOLEAN, m \in {0, 13}, ph \in {0, 5 * SecondTicks}}

InitSnap ==
  /\ project \in SnapProjects
  /\ Qt = TRUE
  /\ InitRest

SnapPixels == 0..(2 * MaxPx + 3) \cup {5 * SecondTicks + 1}

\* one query of each project: the function changes nothing, a second query
\* would start from the same project
NextSnap ==
  /\ last.op = "init"
  /\ \E a \in SnapPixels, b \in {0, 6}, threshold \in 0..2,
        ignore_ids \in {{}, {"c1"}, {"playhead"}}, includeKeyframes \in BOOLEAN :
        \/ GetNearbyPosition(<<a>>, threshold, ignore_ids, includeKeyframes)
        \/ GetNearbyPosition(<<a, a + b>>, threshold, ignore_ids, includeKeyframes)

SpecSnap == InitSnap /\ [][NextSnap]_vars

\* the snap targets that are not ignored, in the order of the scan
TargetList(p, ignore_ids, includeKeyframes) ==
  LET edges(x) == <<timeToPixel(x.position), timeToPixel(x.position + (x.end - x.start))>>
      items(coll) == Flatten([i \in 1..Len(coll) |->
                                IF coll[i].id \in ignore_ids THEN <<>> ELSE edges(coll[i])])
  IN items(p.clips) \o items(p.effects)
     \o [i \in 1..Len(p.markers) |-> timeToPixel(p.markers[i].position)]
     \o (IF "ruler" \in ignore_ids \/ "playhead" \in ignore_ids THEN <<>>
         ELSE <<timeToPixel(p.playhead_position)>>)
     \o <<timeToPixel(p.duration)>>
     \o KeyframeTargets(p, includeKeyframes)

\* the pairs <<candidate index, target index>> within the threshold
Eligible(q) ==
  LET targets == TargetList(project, q.ignore_ids, q.includeKeyframes)
  IN {e \in (1..Len(q.pixel_positions)) \X (1..Len(targets)) :
        Abs(q.pixel_positions[e[1]] - targets[e[2]]) <= q.threshold}

\* e is scanned before f
ScannedBefore(e, f) == e[1] < f[1] \/ (e[1] = f[1] /\ e[2] < f[2])

\* the eligible pair with the smallest absolute diff, the first scanned on ties
Nearest(q) ==
  LET targets == TargetList(project, q.ignore_ids, q.includeKeyframes)
      d(e) == Abs(q.pixel_positions[e[1]] - targets[e[2]])
  IN CHOOSE e \in Eligible(q) :
       \A f \in Eligible(q) \ {e} : d(e) < d(f) \/ (d(e) = d(f) /\ ScannedBefore(e, f))

\* C22: getNearbyPosition returns the nearest target within the threshold,
\* the first scanned on ties, whatever its pixel position, with the signed
\* offset candidate - target
C22_NearestTargetWins ==
  (last.op = "getNearbyPosition" /\ Eligible(last) # {}) =>
     LET targets == TargetList(project, last.ignore_ids, last.includeKeyframes)
         e == Nearest(last)
     IN last.result = <<last.pixel_positions[e[1]] - targets[e[2]], targets[e[2]]>>

\* C22 for queries whose nearest target is not at pixel 0
C22_NearestTargetWinsAwayFromZero ==
  (last.op = "getNearbyPosition" /\ Eligible(last) # {}
     /\ TargetList(project, last.ignore_ids, last.includeKeyframes)[Nearest(last)[2]] # 0) =>
     LET targets == TargetList(project, last.ignore_ids, last.includeKeyframes)
         e == Nearest(last)
     IN last.result = <<last.pixel_positions[e[1]] - targets[e[2]], targets[e[2]]>>

\* C22, the example: an edge one pixel right of the playhead at 5.0 s locks
\* to the playhead
C22_Example ==
  (/\ last.op = "getNearbyPosition"
   /\ project.playhead_position = 5 * SecondTicks
   /\ last.pixel_positions = <<timeToPixel(5 * SecondTicks) + 1>>
   /\ last.threshold >= 1 /\ last.ignore_ids = {})
     => last.result = <<1, timeToPixel(5 * SecondTicks)>>

\* ------------------------------------------------- missing transitions
\* a query for the missing transition of a clip; the project is left as it is
GetMissingTransitions(id) ==
  /\ IndexOfId(project.clips, id) > 0
  /\ last' = [op |-> "getMissingTransitions", id |-> id,
              result |-> getMissingTransitions(project,
                                               project.clips[IndexOfId(project.clips, id)])]
  /\ UNCHANGED <<storeVars, selVars, modeVars, gestVars, gestures, calls>>

\* clip A {position 0, start 0, end 5.0} and clip B {start 0, end 6.0} on
\* layer 1, B at 4.0 s and around; a short clip on layer 1 or 2; a transition
\* of 1.0 s or 2.0 s on layer 1 or 2
ProposalProjects ==
  {SortItemsNow(Project(<<Clip("c1", 1, 0, 0, 5 * SecondTicks),
                          Clip("c2", 1, pb, 0, 6 * SecondTicks),
                          Clip("c3", l3, p3, 0, SecondTicks)>>,
                        <<Transition("t1", lt, pt, et)>>, TwoLayers, 30 * SecondTicks)) :
     pb \in {0, 4 * SecondTicks, 5 * SecondTicks - 2, 5 * SecondTicks, 8 * SecondTicks},
     l3 \in {1, 2}, p3 \in {0, 4 * SecondTicks + 2, 9 * SecondTicks + 3},
     lt \in {1, 2}, pt \in {0, 4 * SecondTicks, 6 * SecondTicks},
     et \in {SecondTicks, 2 * SecondTicks}}

InitProposal ==
  /\ project \in ProposalProjects
  /\ Qt = TRUE
  /\ InitRest

\* one query of each project
NextProposal ==
  /\ last.op = "init"
  /\ \E id \in {"c1", "c2", "c3"} : GetMissingTransitions(id)

SpecProposal == InitProposal /\ [][NextProposal]_vars

\* the clip with the id
ClipOf(id) == project.clips[IndexOfId(project.clips, id)]

\* r is one of the two proposals of clip C over clip O
ProposalOver(r, C, O) ==
  /\ O.layer = C.layer
  /\ \/ /\ O.position < C.position /\ C.position < Extent(O)
        /\ r.position = C.position /\ r.end = Extent(O) - C.position
     \/ /\ O.position < Extent(C) /\ Extent(C) < Extent(O)
        /\ r.position = O.position /\ r.end = Extent(C) - O.position

\* r has an edge within 0.01 s of the same edge of a transition of its layer
Coincides(r, p) ==
  \E i \in 1..Len(p.effects) :
     /\ p.effects[i].layer = r.layer
     /\ \/ 100 * Abs(p.effects[i].position - r.position) < SecondTicks
        \/ 100 * Abs(Extent(p.effects[i]) - (r.position + r.end)) < SecondTicks

\* C23: a proposal of getMissingTransitions for a clip C starts at 0, is on
\* C's layer, is one of the two overlaps of C with a clip of that layer, is at
\* least 0.5 s long and does not coincide with a transition of that layer
C23_ProposalIsAnOverlap ==
  (last.op = "getMissingTransitions" /\ last.result # <<>>) =>
     LET r == last.result[1]
     IN /\ r.start = 0
        /\ r.layer = ClipOf(last.id).layer
        /\ \E i \in 1..Len(project.clips) : ProposalOver(r, ClipOf(last.id), project.clips[i])
        /\ 2 * r.end >= SecondTicks
        /\ ~Coincides(r, project)

\* the example: A at 0..5.0, B dropped at 4.0 s, proposal {position 4.0,
\* layer 1, start 0, end 1.0}
C23_Witness ==
  /\ last.op = "getMissingTransitions" /\ last.id = "c2"
  /\ ClipOf("c1").position = 0 /\ ClipOf("c1").end = 5 * SecondTicks
  /\ ClipOf("c2").position = 4 * SecondTicks /\ ClipOf("c2").end = 6 * SecondTicks
  /\ last.result = <<[position |-> 4 * SecondTicks, layer |-> 1, start |-> 0,
                      end |-> SecondTicks]>>

\* ------------------------------------------- overlaps after a stop
\* clips A (0..1.0 s) and B (1.0..2.0 s) next to each other on layer 1, media
\* of 2.0 s, and a transition on layer 2
OverlapProject ==
  Project(<<[Clip("c1", 1, 0, 0, SecondTicks) EXCEPT !.reader_duration = 2 * SecondTicks],
            [Clip("c2", 1, SecondTicks, 0, SecondTicks) EXCEPT !.reader_duration = 2 * SecondTicks]>>,
          <<Transition("t1", 2, 0, FrameTicks)>>, TwoLayers, 4 * SecondTicks)

InitOverlap ==
  /\ project = OverlapProject
  /\ Qt = TRUE
  /\ InitRest

\* resizes by the pointer, and moves of one or two clips driven by the host
NextOverlap ==
  \/ /\ gestures < MaxGestures
     /\ \E id \in {"c1", "c2"}, side \in {"left", "right"} : ClipResizeStart(id, side, FALSE)
  \/ \E px \in 0..(2 * SecondTicks) : ClipResizeStop(px)
  \/ gestures < MaxGestures /\ \E ids \in {{"c2"}, {"c1", "c2"}} : StartManualMove("clip", ids)
  \/ InitBoundingBox
  \/ \E dx \in {-FrameTicks, -1, 1} : MoveItem(dx, 0)
  \/ /\ gesture.kind = "manual" /\ ~gesture.timer
     /\ \E ids \in {<<"c2">>, <<"c1", "c2">>}, tid \in HostTids :
           UpdateRecentItemJSON("clip", ids, tid)

SpecOverlap == InitOverlap /\ [][NextOverlap]_vars

\* the proposals for clip C that the two overlap rules give over the other
\* clips of its layer, half a second or longer, no edge on a transition's
Qualifying(C) ==
  {r \in {[position |-> IF O.position < C.position /\ C.position < Extent(O)
                        THEN C.position ELSE O.position,
            layer |-> C.layer, start |-> 0,
            end |-> IF O.position < C.position /\ C.position < Extent(O)
                    THEN Extent(O) - C.position ELSE Extent(C) - O.position] :
             O \in {o \in Range(project.clips) :
                      /\ o.id # C.id /\ o.layer = C.layer
                      /\ \/ o.position < C.position /\ C.position < Extent(o)
                         \/ o.position < Extent(C) /\ Extent(C) < Extent(o)}} :
      2 * r.end >= SecondTicks /\ ~Coincides(r, project)}

\* the proposals the host was told of
Reported == {calls[i].arg : i \in {j \in 1..Len(calls) : calls[j].name = "add_missing_transition"}}

\* the stop of a resize of one clip
ResizeStopped == last.op = "clipResizeStop" /\ ~last.disabled

\* the stop of a move of the clips of item_ids
MoveStopped == last.op = "updateRecentItemJSON" /\ last.item_type = "clip"

\* C24: after the stop of a drag or of a resize of one clip, with the host
\* bound, every qualifying overlap of that clip is reported through
\* add_missing_transition; after a stop that moved more than one item nothing
\* is reported
C24_OverlapsAreReported ==
  /\ (Qt /\ ResizeStopped) => Qualifying(ClipOf(last.id)) \subseteq Reported
  /\ (Qt /\ MoveStopped /\ Len(last.item_ids) = 1)
        => Qualifying(ClipOf(last.item_ids[1])) \subseteq Reported
  /\ (Qt /\ MoveStopped /\ Len(last.item_ids) > 1) => Reported = {}

\* C24 without the resize: the stops of host-driven moves alone
C24_MovesReportOverlaps ==
  /\ (Qt /\ MoveStopped /\ Len(last.item_ids) = 1)
        => Qualifying(ClipOf(last.item_ids[1])) \subseteq Reported
  /\ (Qt /\ MoveStopped /\ Len(last.item_ids) > 1) => Reported = {}

\* ------------------------------------------------ the committed frame
\* a clip with keyframes at frames 1 and 2 whose start and end are on and off
\* the grid, equal or apart, among them {start 0, end 4.0}; a transition of
\* one frame or of none
KeyframeProjects ==
  {Project(<<Clip("c1", 1, 0, s, e)>>, <<Transition("t1", 1, 0, et)>>, TwoLayers,
           6 * SecondTicks) :
     s \in {0, 1, FrameTicks}, e \in {FrameTicks, FrameTicks + 2, 4 * SecondTicks},
     et \in {0, FrameTicks}}

InitKeyframe ==
  /\ project \in KeyframeProjects
  /\ Qt = TRUE
  /\ InitRest

NextKeyframe ==
  \/ /\ gestures < MaxGestures
     /\ \E o \in {<<"clip", "c1">>, <<"transition", "t1">>}, point \in {1, 2} :
           KeyframeDragStart(o[1], o[2], point)
  \/ \E left \in (-FrameTicks)..(2 * SecondTicks + 1) \cup {4 * SecondTicks, 5 * SecondTicks} :
        KeyframeDragStop(left)

SpecKeyframe == InitKeyframe /\ [][NextKeyframe]_vars

\* a keyframe drag has stopped and committed a frame
FrameCommitted == last.op = "keyframeDragStop" /\ last.found /\ last.changed

\* the owner of the keyframe of the last drag
Owner == Entity(IF \E i \in 1..Len(project.clips) : project.clips[i].id = last.id
                THEN "clip" ELSE "transition", last.id)

\* the pointer time snapped to the grid and clamped to [start, end - 1/F]
SnappedSeconds(x, left) ==
  LET t == snapToFPSGridTime(pixelToTime(left) + x.start)
      hi == x.end - FrameTicks
  IN IF t > hi THEN Max(hi, x.start) ELSE Max(t, x.start)

\* C25: the frame a keyframe drag commits for an owner with start <= end is a
\* positive integer between floor(start * F) + 1 and floor(end * F), equal to
\* snapped_seconds * F + 1
C25_CommittedFrameInRange ==
  (FrameCommitted /\ Owner.start <= Owner.end) =>
     /\ last.newFrame >= 1
     /\ (Owner.start \div FrameTicks) + 1 <= last.newFrame
     /\ last.newFrame <= Owner.end \div FrameTicks
     /\ (last.newFrame - 1) * FrameTicks = SnappedSeconds(Owner, last.left)

\* C25 for owners whose start and end are whole frames at least a frame apart
C25_CommittedFrameInRangeOnGrid ==
  (/\ FrameCommitted
   /\ OnGrid(Owner.start) /\ OnGrid(Owner.end) /\ Owner.start + FrameTicks <= Owner.end) =>
     /\ last.newFrame >= 1
     /\ (Owner.start \div FrameTicks) + 1 <= last.newFrame
     /\ last.newFrame <= Owner.end \div FrameTicks
     /\ (last.newFrame - 1) * FrameTicks = SnappedSeconds(Owner, last.left)

\* C25, the example: clip {start 0, end 4.0}, pointer at 2.0 s, frame 2.0 * F + 1
C25_Example ==
  (/\ last.op = "keyframeDragStop" /\ last.found /\ last.id = "c1"
   /\ Owner.start = 0 /\ Owner.end = 4 * SecondTicks
   /\ last.left = timeToPixel(2 * SecondTicks))
     => last.newFrame = 2 * FramesPerSecond + 1

\* ------------------------------------------- the left handle and the right edge
\* a left-handle stop in trim mode on a clip that is not a single image
LeftTrimStop ==
  /\ gesture.kind = "clip_resize" /\ dragLoc = "left"
  /\ ~enable_timing /\ ~resize_disabled
  /\ ~isSingleImageClip(project.clips[1])
  /\ last'.op = "clipResizeStop"

\* the time delta of the stop: the left edge less the pointer
DeltaTime == project.clips[1].position - pixelToTime(last'.px)

\* C26: a left-handle stop on a normal clip sets start to max(0, start - dt)
\* and not past end, and shifts position by what start changed, so that the
\* right edge position + (end - start) stays where it was, for every dt
C26_LeftTrimKeepsRightEdge ==
  [][LeftTrimStop =>
       /\ project'.clips[1].start =
            snapToFPSGridTime(Min(project.clips[1].end, Max(0, project.clips[1].start - DeltaTime)))
       /\ project'.clips[1].start <= project'.clips[1].end
       /\ project'.clips[1].position - project.clips[1].position
            = project'.clips[1].start - project.clips[1].start
       /\ Extent(project'.clips[1]) = Extent(project.clips[1])]_vars

\* C26 for the dt that leave the left edge left of the right edge
C26_LeftTrimKeepsRightEdgeInside ==
  [][(LeftTrimStop /\ project.clips[1].start - DeltaTime < project.clips[1].end) =>
       /\ project'.clips[1].start = snapToFPSGridTime(Max(0, project.clips[1].start - DeltaTime))
       /\ project'.clips[1].start <= project'.clips[1].end
       /\ project'.clips[1].position - project.clips[1].position
            = project'.clips[1].start - project.clips[1].start
       /\ Extent(project'.clips[1]) = Extent(project.clips[1])]_vars

\* C26, the first two parts alone: where start ends up
C26_LeftTrimStart ==
  [][LeftTrimStop =>
       /\ project'.clips[1].start =
            snapToFPSGridTime(Min(project.clips[1].end, Max(0, project.clips[1].start - DeltaTime)))
       /\ project'.clips[1].start <= project'.clips[1].end]_vars

\* ---------------------------------------------------- the stop of a retime
\* a resize of a clip stops while timing mode is on, the track not locked
RetimeStop ==
  /\ gesture.kind = "clip_resize" /\ enable_timing /\ ~resize_disabled
  /\ last'.op = "clipResizeStop"

\* the clip of the gesture, before and after the stop
Resized == project.clips[IndexOfId(project.clips, gesture.id)]
ResizedAfter == project'.clips[IndexOfId(project'.clips, gesture.id)]

\* the calls the step added
NewCalls == SubSeq(calls', Len(calls) + 1, Len(calls'))

\* C27: a resize that stops in timing mode, whatever setTimingMode calls came
\* between its start and its stop, leaves the clip's start as it was at the
\* start of the gesture, sets end to start plus the snapped new duration,
\* tells the host RetimeClip(id, end, position), sends no update_clip_data and
\* rewrites no point
C27_RetimeKeepsStart ==
  [][RetimeStop =>
       LET e == ResizeEdges(Resized, dragLoc, last'.px, TRUE)
           duration == snapToFPSGridTime(e.new_right) - snapToFPSGridTime(e.new_left)
       IN /\ ResizedAfter.start = Resized.start
          /\ ResizedAfter.end = snapToFPSGridTime(ResizedAfter.start + duration)
          /\ \E i \in 1..Len(NewCalls) :
                /\ NewCalls[i].name = "RetimeClip" /\ NewCalls[i].id = gesture.id
                /\ NewCalls[i].arg = <<ResizedAfter.end, ResizedAfter.position>>
          /\ \A i \in 1..Len(NewCalls) : NewCalls[i].name # "update_clip_data"
          /\ ResizedAfter.alpha = Resized.alpha]_vars

\* C27 for the gestures whose start recorded the clip's start, as a start in
\* timing mode does
C27_RetimeKeepsStartWhenStartedInTiming ==
  [][(RetimeStop /\ timing_original_start[gesture.id] = Resized.start) =>
       LET e == ResizeEdges(Resized, dragLoc, last'.px, TRUE)
           duration == snapToFPSGridTime(e.new_right) - snapToFPSGridTime(e.new_left)
       IN /\ ResizedAfter.start = Resized.start
          /\ ResizedAfter.end = snapToFPSGridTime(ResizedAfter.start + duration)
          /\ \E i \in 1..Len(NewCalls) :
                /\ NewCalls[i].name = "RetimeClip" /\ NewCalls[i].id = gesture.id
                /\ NewCalls[i].arg = <<ResizedAfter.end, ResizedAfter.position>>
          /\ \A i \in 1..Len(NewCalls) : NewCalls[i].name # "update_clip_data"
          /\ ResizedAfter.alpha = Resized.alpha]_vars

\* ------------------------------------------------- moveKeyframes on a tree
\* a point of a keyframe track
Point(X, Y, interpolation) == [co |-> [X |-> X, Y |-> Y], interpolation |-> interpolation]

\* the keys whose values are not objects, and the keys whose values are arrays
ScalarKeys == {"id", "X", "Y", "interpolation", "start", "end", "position", "layer", "selected"}
ArrayKeys == {"Points", "effects"}

\* Points.forEach: co.X = new_frame where co.X is old_frame
RewritePoints(points, old_frame, new_frame) ==
  [i \in 1..Len(points) |->
     IF points[i].co.X = old_frame THEN [points[i] EXCEPT !.co.X = new_frame] ELSE points[i]]

\* only the object's own Points, nothing below it
UpdateOwnPoints(obj, old_frame, new_frame) ==
  IF "Points" \in DOMAIN obj
  THEN [obj EXCEPT !.Points = RewritePoints(@, old_frame, new_frame)]
  ELSE obj

\* the colour branch of update: the Points of red, green and blue
UpdateColour(obj, old_frame, new_frame) ==
  IF "red" \in DOMAIN obj /\ "Points" \in DOMAIN obj.red
  THEN [obj EXCEPT !.red.Points = RewritePoints(@, old_frame, new_frame),
                   !.green.Points = RewritePoints(@, old_frame, new_frame),
                   !.blue.Points = RewritePoints(@, old_frame, new_frame)]
  ELSE obj

RECURSIVE update(_, _, _)
\* update of moveKeyframes: the object's Points, its colour channels, then
\* every value that is an object or an array
update(obj, old_frame, new_frame) ==
  CHOOSE r \in
    {[k \in DOMAIN o |->
        IF k \in ScalarKeys THEN o[k]
        ELSE IF k \in ArrayKeys
        THEN [i \in 1..Len(o[k]) |-> update(o[k][i], old_frame, new_frame)]
        ELSE update(o[k], old_frame, new_frame)] :
       o \in {UpdateColour(UpdateOwnPoints(obj, old_frame, new_frame), old_frame, new_frame)}} :
    TRUE

\* a track of two points, and a colour of three tracks
Track(x1, x2) == [Points |-> <<Point(x1, 0, 0), Point(x2, 1, 2)>>]
Colour(x1, x2) == [red |-> Track(x1, x2), green |-> Track(x1, x2), blue |-> Track(1, x2)]

\* clips with an alpha track, a colour, and an effect with a track and a colour
KeyframedObjects ==
  {[id |-> "c1", start |-> 0, end |-> 4 * SecondTicks, alpha |-> Track(1, a),
    wave_color |-> Colour(1, c),
    effects |-> <<[id |-> "e1", selected |-> FALSE, brightness |-> Track(b, 3),
                   color |-> Colour(b, c)]>>] :
     a \in 1..3, b \in 1..3, c \in 1..3}

\* a call of moveKeyframes on a copy of an object
MoveKeyframes(object, old_frame, new_frame) ==
  /\ last' = [op |-> "moveKeyframes", object |-> object, old_frame |-> old_frame,
              new_frame |-> new_frame, result |-> update(object, old_frame, new_frame)]
  /\ UNCHANGED <<storeVars, selVars, modeVars, gestVars, gestures, calls>>

\* one call for each object and each pair of frames
NextKeyMove ==
  /\ last.op = "init"
  /\ \E object \in KeyframedObjects, old_frame \in 1..3, new_frame \in 1..4 :
        MoveKeyframes(object, old_frame, new_frame)

SpecKeyMove == InitGesture /\ [][NextKeyMove]_vars

\* a track with the points at frame a moved to frame b, nothing else touched
Moved(track, a, b) ==
  [Points |-> [i \in 1..Len(track.Points) |->
                 [co |-> [X |-> IF track.Points[i].co.X = a THEN b ELSE track.Points[i].co.X,
                          Y |-> track.Points[i].co.Y],
                  interpolation |-> track.Points[i].interpolation]]]

MovedColour(c, a, b) ==
  [red |-> Moved(c.red, a, b), green |-> Moved(c.green, a, b), blue |-> Moved(c.blue, a, b)]

\* C28: moveKeyframes sets co.X to the new frame on every point at the old
\* frame, in every track of the object, its colour channels and its effects'
\* tracks included, and changes nothing else
C28_MoveKeyframesMovesEveryTrack ==
  last.op = "moveKeyframes" =>
     LET o == last.object
         a == last.old_frame
         b == last.new_frame
     IN last.result =
          [id |-> o.id, start |-> o.start, end |-> o.end,
           alpha |-> Moved(o.alpha, a, b),
           wave_color |-> MovedColour(o.wave_color, a, b),
           effects |-> [i \in 1..Len(o.effects) |->
                          [id |-> o.effects[i].id, selected |-> o.effects[i].selected,
                           brightness |-> Moved(o.effects[i].brightness, a, b),
                           color |-> MovedColour(o.effects[i].color, a, b)]]]

\* frame 1 moved to frame 4 on an object with points at frame 1 in its own
\* track, in its colour and in its effect, and points elsewhere
C28_Witness ==
  /\ last.op = "moveKeyframes" /\ last.old_frame = 1 /\ last.new_frame = 4
  /\ last.object.effects[1].brightness.Points[1].co.X = 1
  /\ last.object.alpha.Points[2].co.X = 2
  /\ last.result.alpha.Points[1].co.X = 4
  /\ last.result.alpha.Points[2].co.X = 2
  /\ last.result.wave_color.blue.Points[1].co.X = 4
  /\ last.result.effects[1].color.green.Points[1].co.X = 4

\* ------------------------------------------------ the snapline at a stop
\* the pointer gestures and a host-driven move, which the host finalises with
\* the list of ids it chooses
NextSnapline ==
  \/ /\ gestures < MaxGestures
     /\ \E id \in {"c1", "c2"}, side \in {"left", "right"} : ClipResizeStart(id, side, FALSE)
  \/ \E px \in {0, FrameTicks} : ClipResizeStop(px)
  \/ gestures < MaxGestures /\ \E side \in {"left", "right"} : TransitionResizeStart("t1", side)
  \/ \E px \in {0, FrameTicks} : TransitionResizeStop(px)
  \/ gestures < MaxGestures /\ \E point \in {1, 2} : KeyframeDragStart("clip", "c1", point)
  \/ \E left \in {0, FrameTicks} : KeyframeDragStop(left)
  \/ gestures < MaxGestures /\ StartManualMove("clip", {"c1"})
  \/ InitBoundingBox
  \/ \E dx \in {-2, 4} : MoveItem(dx, 0)
  \/ /\ gesture.kind = "manual" /\ ~gesture.timer
     /\ \E ids \in {<<>>, <<"c1">>}, tid \in HostTids : UpdateRecentItemJSON("clip", ids, tid)

SpecSnapline == InitGesture /\ [][NextSnapline]_vars

\* the steps that end a gesture
StopOps == {"clipResizeStop", "transitionResizeStop", "keyframeDragStop", "updateRecentItemJSON"}

\* C29: after the stop of any gesture (a clip or transition resize, the
\* resize-disabled path included, a keyframe drag, a host-driven move
\* finalised by updateRecentItemJSON with any id list) the snapline is hidden
C29_HiddenAfterEveryStop == last.op \in StopOps => ~snapline

\* the stops whose handler reaches its hideSnapline call: a resize that is not
\* disabled, and updateRecentItemJSON with at least one id
C29_HiddenAfterHandledStop ==
  (\/ last.op \in {"clipResizeStop", "transitionResizeStop"} /\ ~last.disabled
   \/ last.op = "updateRecentItemJSON" /\ Len(last.item_ids) > 0)
    => ~snapline

\* a host-driven move that snapped and was finalised with one id
C29_HandledStop ==
  /\ last.op = "updateRecentItemJSON" /\ last.item_ids = <<"c1">>
  /\ Len(calls) > 0
  /\ ~snapline

\* ------------------------------------------- the timeline grows with its clips
\* a project of one second with a clip that a resize or a move takes past it
ResizeProject ==
  Project(<<[Clip("c1", 1, 0, 0, FrameTicks) EXCEPT !.reader_duration = 3 * SecondTicks]>>,
          <<Transition("t1", 2, 0, FrameTicks)>>, TwoLayers, SecondTicks)

InitResize ==
  /\ project = ResizeProject
  /\ Qt \in BOOLEAN
  /\ InitRest

\* resizes by the pointer and moves driven by the host
NextResize ==
  \/ gestures < MaxGestures /\ \E side \in {"left", "right"} : ClipResizeStart("c1", side, FALSE)
  \/ \E px \in 0..(2 * SecondTicks) : ClipResizeStop(px)
  \/ \E b \in BOOLEAN : SetTimingMode(b)
  \/ gestures < MaxGestures /\ StartManualMove("clip", {"c1"})
  \/ InitBoundingBox
  \/ \E dx \in {FrameTicks, 2 * FrameTicks} : MoveItem(dx, 0)
  \/ /\ gesture.kind = "manual" /\ ~gesture.timer
     /\ \E tid \in HostTids : UpdateRecentItemJSON("clip", <<"c1">>, tid)

SpecResize == InitResize /\ [][NextResize]_vars

\* the furthest right edge of the clips
MaxRight(p) ==
  CHOOSE m \in {Extent(p.clips[i]) : i \in 1..Len(p.clips)} :
     \A i \in 1..Len(p.clips) : Extent(p.clips[i]) <= m

\* the resizeTimeline calls among the calls of the step
ResizeRequests == SelectSeq(NewCalls, LAMBDA c : c.name = "resizeTimeline")

\* what the host is asked, given the edges after the edit and the duration before
AskedAsClaimed ==
  ResizeRequests =
    IF MaxRight(project') > project.duration
    THEN <<Call("resizeTimeline", "", "", NoTx,
                Max(300 * SecondTicks, MaxRight(project') + 10 * SecondTicks))>>
    ELSE <<>>

ClipsInside == \A i \in 1..Len(project'.clips) : Extent(project'.clips[i]) <= project'.duration

ResizeEdit == last'.op = "clipResizeStop" /\ ~last'.disabled
MoveEdit == last'.op = "updateRecentItemJSON"

\* C30: a clip edit that calls resizeTimeline with the host bound asks the
\* host resizeTimeline(max(300, maxRight + 10)) when maxRight is past the
\* duration and asks nothing otherwise, and leaves project.duration at or
\* past the right edge of every clip
C30_TimelineHoldsEveryClip ==
  [][((ResizeEdit \/ MoveEdit) /\ Qt) => (AskedAsClaimed /\ ClipsInside)]_vars

\* the request alone, on a resize and on a move
C30_HostAskedAsClaimed ==
  [][((ResizeEdit \/ MoveEdit) /\ Qt) => AskedAsClaimed]_vars

\* the whole of it on a move that the host finalises
C30_MoveHoldsEveryClip ==
  [][(MoveEdit /\ Qt) => (AskedAsClaimed /\ ClipsInside)]_vars

\* without a host nothing is asked and the duration stays
C30_NoHostNoRequest ==
  [][((ResizeEdit \/ MoveEdit) /\ ~Qt) => (ResizeRequests = <<>> /\ project'.duration = project.duration)]_vars

\* a move took the clip past one second and the timeline is 300 seconds long
C30_MoveResized ==
  /\ last.op = "updateRecentItemJSON" /\ Qt
  /\ project.duration = 300 * SecondTicks
  /\ \E i \in 1..Len(calls) : calls[i].name = "resizeTimeline"

\* ------------------------------------------------ the keyframe enumerator
lookupInterpolation(interpolation_number) ==
  IF interpolation_number = 0 THEN "bezier"
  ELSE IF interpolation_number = 1 THEN "linear" ELSE "constant"

getEffectColor(effect_type) ==
  CASE effect_type = "Blur" -> "#0095bf"
    [] effect_type = "Brightness" -> "#5500ff"
    [] OTHER -> "#000000"

\* coloredIcon: the template with its fill rewritten, or the plain path while
\* the template of the interpolation is not loaded
coloredIcon(templates, interpolation, color) ==
  IF interpolation \in templates THEN <<"svg", interpolation, color>>
  ELSE <<"path", interpolation>>

\* the preview of getKeyframes: ui.keyframe_preview when it is active
ActivePreview(object) ==
  IF "ui" \in DOMAIN object /\ object.ui.keyframe_preview.active
  THEN <<object.ui.keyframe_preview>> ELSE <<>>

\* previewSignature; toFixed(4) keeps every time of the model, a time being a
\* whole number of ticks
previewSignature(object) ==
  IF ActivePreview(object) = <<>> THEN <<"none">>
  ELSE LET preview == ActivePreview(object)[1]
       IN <<preview.mode, preview.displayStart, preview.displayEnd,
            preview.originalStart, preview.originalEnd>>

\* effect_key: id and selected flag of every effect
effect_key(object) ==
  IF "effects" \in DOMAIN object
  THEN [i \in 1..Len(object.effects) |-> <<object.effects[i].id, object.effects[i].selected>>]
  ELSE <<>>

\* the times getKeyframes derives before it walks the properties
PreviewWindow(object) ==
  LET clip_start_sec == object.start
      clip_end_sec == Max(object.end, object.start)
      has == ActivePreview(object) # <<>>
      preview == ActivePreview(object)[1]
      ds == IF has THEN preview.displayStart ELSE clip_start_sec
      de == IF has THEN preview.displayEnd ELSE clip_end_sec
      ps == IF has THEN preview.projectedStart ELSE clip_start_sec
      pe == IF has THEN preview.projectedEnd ELSE clip_end_sec
  IN [clip_start_sec |-> clip_start_sec, clip_end_sec |-> clip_end_sec,
      preview |-> has, retime |-> has /\ preview.mode = "retime",
      previewDisplayStart |-> Min(ds, de), previewDisplayEnd |-> Max(ds, de),
      previewProjectedStart |-> ps,
      displayDuration |-> Max(Max(ds, de) - Min(ds, de), 0),
      projectedDuration |-> Max(Max(pe, ps) - ps, 0)]

\* a time as a fraction of ticks
Whole(t) == [n |-> t, d |-> 1]

\* mapSecondsToDisplay of getKeyframes
mapSecondsToDisplay(w, seconds) ==
  IF ~w.retime THEN Whole(seconds)
  ELSE IF ~(w.projectedDuration > 0) \/ ~(w.displayDuration > 0)
  THEN Whole(w.previewDisplayStart)
  ELSE [n |-> w.previewDisplayStart * w.projectedDuration
              + (seconds - w.previewProjectedStart) * w.displayDuration,
        d |-> w.projectedDuration]

\* isInside, with frameTolerance half a frame
isInside(seconds, start, end) ==
  /\ 2 * seconds.n >= seconds.d * (2 * start - FrameTicks)
  /\ 2 * seconds.n <= seconds.d * (2 * end + FrameTicks)

isInsideClip(w, seconds) == isInside(Whole(seconds), w.clip_start_sec, w.clip_end_sec)

isInsidePreview(w, seconds) ==
  IF ~w.preview THEN isInsideClip(w, seconds)
  ELSE isInside(mapSecondsToDisplay(w, seconds), w.previewDisplayStart, w.previewDisplayEnd)

\* the seconds of a frame inside its clip
keyframeSeconds(X) == (X - 1) * FrameTicks

\* the keys of an object or an effect that hold keyframe tracks, in the order
\* of the keys
PropOrder == <<"alpha", "wave_color", "brightness", "color">>

toLowerCase(str) == IF str = "ALPHA" THEN "alpha" ELSE str

\* child.toLowerCase().includes(filter.toLowerCase()), for the filters of the model
Includes(child, filter) ==
  \/ toLowerCase(filter) = ""
  \/ toLowerCase(filter) = child
  \/ toLowerCase(filter) = "color" /\ child = "wave_color"

PassesFilter(child, filter) == filter = "" \/ Includes(child, filter)

\* the points a property contributes: its Points, or those of its red channel,
\* when there are more than one
ContributedPoints(value) ==
  IF "Points" \in DOMAIN value
  THEN (IF Len(value.Points) > 1 THEN value.Points ELSE <<>>)
  ELSE IF "red" \in DOMAIN value /\ Len(value.red.Points) > 1 THEN value.red.Points
  ELSE <<>>

ChannelTag(value, own, colour) == IF "Points" \in DOMAIN value THEN own ELSE colour

\* the storeKeyframe calls of one property of the object itself, in order
ObjectEntries(object, w, object_type, effect_selected, child) ==
  LET points == ContributedPoints(object[child])
      baseSelected == IF object_type = "transition" THEN TRUE
                      ELSE object.selected /\ ~effect_selected
      entry(pt) ==
        [frame |-> pt.co.X,
         tag |-> <<ChannelTag(object[child], "c", "cr"), pt.co.X,
                   lookupInterpolation(pt.interpolation)>>,
         data |-> [interpolation |-> lookupInterpolation(pt.interpolation),
                   selected |-> baseSelected /\ isInsidePreview(w, keyframeSeconds(pt.co.X)),
                   type |-> object_type, owner |-> object.id,
                   insidePreview |-> isInsidePreview(w, keyframeSeconds(pt.co.X)),
                   baseSelected |-> baseSelected]]
  IN SelectSeq([i \in 1..Len(points) |-> entry(points[i])],
               LAMBDA e : w.preview \/ isInsideClip(w, keyframeSeconds(e.frame)))

\* the storeKeyframe calls of one property of an effect, in order
EffectEntries(eff, w, templates, prop) ==
  LET points == ContributedPoints(eff[prop])
      entry(pt) ==
        [frame |-> pt.co.X,
         tag |-> <<ChannelTag(eff[prop], "e", "ec"), eff.id, pt.co.X,
                   lookupInterpolation(pt.interpolation)>>,
         data |-> [interpolation |-> lookupInterpolation(pt.interpolation),
                   icon |-> coloredIcon(templates, lookupInterpolation(pt.interpolation),
                                        getEffectColor(eff.type)),
                   selected |-> eff.selected /\ isInsidePreview(w, keyframeSeconds(pt.co.X)),
                   type |-> "effect", owner |-> eff.id,
                   insidePreview |-> isInsidePreview(w, keyframeSeconds(pt.co.X)),
                   baseSelected |-> eff.selected]]
  IN SelectSeq([i \in 1..Len(points) |-> entry(points[i])],
               LAMBDA e : w.preview \/ isInsideClip(w, keyframeSeconds(e.frame)))

\* the keys of x that hold tracks and pass the property filter
TrackKeys(x, filter) ==
  SelectSeq(PropOrder, LAMBDA k : k \in DOMAIN x /\ PassesFilter(k, filter))

\* every storeKeyframe call of an enumeration, in order
AllEntries(object, filter, templates) ==
  LET w == PreviewWindow(object)
      object_type == IF "file_id" \in DOMAIN object THEN "clip" ELSE "transition"
      effect_selected == \E i \in 1..Len(effect_key(object)) : object.effects[i].selected
      own == TrackKeys(object, filter)
  IN Flatten([k \in 1..Len(own) |->
                ObjectEntries(object, w, object_type, effect_selected, own[k])])
     \o (IF "effects" \in DOMAIN object
         THEN Flatten([i \in 1..Len(object.effects) |->
                Flatten([k \in 1..Len(TrackKeys(object.effects[i], filter)) |->
                   EffectEntries(object.effects[i], w, templates,
                                 TrackKeys(object.effects[i], filter)[k])])])
         ELSE <<>>)

\* the first entry wins, selected or not
storeFirst(keyframes, entries) ==
  IF entries = <<>> THEN keyframes
  ELSE [f \in {entries[i].frame : i \in 1..Len(entries)} |->
          entries[CHOOSE i \in 1..Len(entries) :
                    /\ entries[i].frame = f
                    /\ \A j \in 1..(i - 1) : entries[j].frame # f].data]

RECURSIVE storeKeyframes(_, _)
\* storeKeyframe over the calls: an entry goes in when its frame is free, or
\* when it is selected and the one in place is not
storeKeyframes(keyframes, entries) ==
  IF entries = <<>> THEN keyframes
  ELSE LET e == Head(entries)
           existing == e.frame \in DOMAIN keyframes
       IN storeKeyframes(
            IF ~existing THEN (e.frame :> e.data) @@ keyframes
            ELSE IF e.data.selected /\ ~keyframes[e.frame].selected
            THEN [keyframes EXCEPT ![e.frame] = e.data]
            ELSE keyframes,
            Tail(entries))

NoKeyframes == <<>>
NoCache == [key |-> <<>>, value |-> NoKeyframes]

\* the key of the cache before the walk
PlainKey(object, filter) ==
  <<object.selected, effect_key(object), filter, previewSignature(object)>>

\* getKeyframes with the entry keyframeCache holds for the object: the value
\* returned and the entry the cache holds after
getKeyframesCached(object, filter, templates, cached) ==
  LET object_type == IF "file_id" \in DOMAIN object THEN "clip" ELSE "transition"
      effect_selected == \E i \in 1..Len(effect_key(object)) : object.effects[i].selected
      previewActive == ActivePreview(object) # <<>>
      plain == PlainKey(object, filter)
  IN IF object_type # "transition" /\ ~object.selected /\ ~effect_selected /\ ~previewActive
     THEN IF cached.key = plain THEN [value |-> cached.value, cached |-> cached]
          ELSE [value |-> NoKeyframes, cached |-> [key |-> plain, value |-> NoKeyframes]]
     ELSE LET entries == AllEntries(object, filter, templates)
              cacheKey == plain \o [i \in 1..Len(entries) |-> entries[i].tag]
              keyframes == storeKeyframes(NoKeyframes, entries)
          IN IF cached.key = cacheKey THEN [value |-> cached.value, cached |-> cached]
             ELSE [value |-> keyframes, cached |-> [key |-> cacheKey, value |-> keyframes]]

\* ui.keyframe_preview: as resetKeyframePreviewState leaves it, as a trim to
\* the first frame, and as a retime of two frames into one
Preview(mode) ==
  [active |-> mode # "off", mode |-> IF mode = "off" THEN "" ELSE mode,
   originalStart |-> 0, originalEnd |-> 2 * FrameTicks,
   displayStart |-> 0, displayEnd |-> IF mode = "off" THEN 2 * FrameTicks ELSE FrameTicks,
   projectedStart |-> 0,
   projectedEnd |-> IF mode = "trim" THEN FrameTicks ELSE 2 * FrameTicks]

\* clips of two frames with a track, a colour and an effect, and transitions
\* with a track and a colour; frame 4 lies past the end
EnumClips ==
  {[id |-> "c1", file_id |-> "f1", start |-> 0, end |-> 2 * FrameTicks, selected |-> sel,
    alpha |-> Track(1, a), wave_color |-> Colour(2, 3),
    effects |-> <<[id |-> "e1", type |-> "Blur", selected |-> effsel,
                   brightness |-> Track(b, 3)]>>,
    ui |-> [keyframe_preview |-> Preview(mode)]] :
     sel \in BOOLEAN, effsel \in BOOLEAN, mode \in {"off", "trim", "retime"},
     a \in 2..4, b \in 1..2}

EnumTransitions ==
  {[id |-> "t1", start |-> 0, end |-> 2 * FrameTicks, selected |-> sel,
    brightness |-> Track(1, a), color |-> Colour(2, 3)] :
     sel \in BOOLEAN, a \in 2..4}

\* a first call of getKeyframes for an object
GetKeyframes(object, filter, templates) ==
  /\ last' = [op |-> "getKeyframes", object |-> object, filter |-> filter,
              templates |-> templates,
              result |-> getKeyframesCached(object, filter, templates, NoCache).value]
  /\ UNCHANGED <<storeVars, selVars, modeVars, gestVars, gestures, calls>>

NextEnum ==
  /\ last.op = "init"
  /\ \E object \in EnumClips \cup EnumTransitions, filter \in {"", "ALPHA", "color"},
        templates \in {{}, {"bezier", "linear", "constant"}} :
        GetKeyframes(object, filter, templates)

SpecEnum == InitGesture /\ [][NextEnum]_vars

\* the frames of the points of a transition's properties that have more than
\* one point, the colour counted by its red channel
PropertyFrames(o, props) ==
  UNION {{ContributedPoints(o[k])[i].co.X : i \in 1..Len(ContributedPoints(o[k]))} : k \in props}

\* the frame lies in the object's start..end, half a frame allowed on each side
InRange(o, X) ==
  /\ 2 * (X - 1) * FrameTicks >= 2 * o.start - FrameTicks
  /\ 2 * (X - 1) * FrameTicks <= 2 * o.end + FrameTicks

\* the properties of the model's transitions whose name holds the filter
Filtered(filter) ==
  IF filter = "" THEN {"brightness", "color"}
  ELSE IF filter = "color" THEN {"color"} ELSE {}

Queried == last.op = "getKeyframes"
IsClip(o) == "file_id" \in DOMAIN o

\* nothing for a clip that is not selected, has no selected effect and no preview
GateHolds ==
  (Queried /\ IsClip(last.object) /\ last.result # NoKeyframes)
    => \/ last.object.selected
       \/ \E i \in 1..Len(last.object.effects) : last.object.effects[i].selected
       \/ last.object.ui.keyframe_preview.active

\* on one frame a selected entry is the one kept
SelectedWins ==
  Queried =>
    \A i \in 1..Len(AllEntries(last.object, last.filter, last.templates)) :
       LET e == AllEntries(last.object, last.filter, last.templates)[i]
       IN (e.frame \in DOMAIN last.result /\ e.data.selected)
            => last.result[e.frame].selected

\* C31 as stated: a clip's keyframes only when it or an effect is selected or
\* a preview is active, every keyframe of every property of more than one
\* point for a selected transition, and the selected entry kept on a frame
C31_VisibleKeyframes_Original ==
  /\ GateHolds
  /\ (Queried /\ ~IsClip(last.object) /\ last.object.selected)
       => DOMAIN last.result = PropertyFrames(last.object, {"brightness", "color"})
  /\ SelectedWins

\* C31: a clip's keyframes only when it or an effect is selected or a preview
\* is active; for a transition the keyframes, of the properties of more than
\* one point whose name holds the filter, that lie in start..end with half a
\* frame allowed; and the selected entry kept where two fall on one frame
C31_VisibleKeyframes ==
  /\ GateHolds
  /\ (Queried /\ ~IsClip(last.object))
       => DOMAIN last.result =
            {X \in PropertyFrames(last.object, Filtered(last.filter)) : InRange(last.object, X)}
  /\ SelectedWins

\* a selected effect's keyframe on frame 1 kept over the clip's own
C31_Witness ==
  /\ Queried /\ IsClip(last.object)
  /\ last.object.alpha.Points[1].co.X = 1
  /\ last.object.effects[1].brightness.Points[1].co.X = 1
  /\ last.object.effects[1].selected
  /\ 1 \in DOMAIN last.result
  /\ last.result[1].type = "effect" /\ last.result[1].selected
\* ------------------------------------------ the keyframe preview of a resize
MaxPreviewCalls == 1

\* new_left and new_right of the resize handler, for the pointer at px
PreviewEdges(c, loc, px, timing) ==
  LET original_left_edge == c.position
      original_width == c.end - c.start
      original_right_edge == original_left_edge + original_width
      delta_x == CASE loc = "left" -> original_left_edge - pixelToTime(px)
                   [] loc = "right" -> original_right_edge - pixelToTime(px)
                   [] OTHER -> 0
      allowLeftOverflow == timing \/ isSingleImageClip(c)
      maxClipEnd == getMaxClipEndSeconds(c, timing)
  IN IF loc = "left"
     THEN IF allowLeftOverflow
          THEN [new_left |-> Max(c.start - delta_x, 0),
                new_right |-> Max(c.start - delta_x, 0) + Max(original_width + delta_x, 0)]
          ELSE [new_left |-> IF c.start - delta_x > 0 THEN c.start - delta_x ELSE 0,
                new_right |-> c.end]
     ELSE [new_left |-> c.start,
           new_right |-> IF maxClipEnd # NoLimit /\ c.end - delta_x > maxClipEnd
                         THEN maxClipEnd ELSE c.end - delta_x]

\* the frame previewClipFrame sends for a time
previewClipFrame(position_seconds) == snapToFPSGridTime(position_seconds) \div FrameTicks + 1

\* the resize handler of a clip; px is where moveBoundingBox puts the pointer
ClipResize(px) ==
  /\ Intact
  /\ gesture.kind = "clip_resize"
  /\ IndexOfId(project.clips, gesture.id) > 0
  /\ Len(calls) < MaxPreviewCalls
  /\ IF resize_disabled
     THEN UNCHANGED <<kp, calls, snapline>>
     ELSE \E e \in {PreviewEdges(project.clips[IndexOfId(project.clips, gesture.id)],
                                  dragLoc, px, enable_timing)} :
            /\ kp' = [kp EXCEPT ![gesture.id] = updateKeyframePreview(@, e.new_left, e.new_right)]
            /\ calls' = calls \o Gate(Qt, <<Call("PreviewClipFrame", "clip", gesture.id, NoTx,
                                                previewClipFrame(IF dragLoc = "left"
                                                                 THEN e.new_left
                                                                 ELSE e.new_right))>>)
            /\ \E snapped \in BOOLEAN : snapline' = showSnapline(snapline, snapped)
  /\ last' = [op |-> "clipResize", id |-> gesture.id, px |-> px, disabled |-> resize_disabled]
  /\ UNCHANGED <<storeVars, selVars, modeVars, gesture, resize_disabled, dragLoc,
                 timing_original_start, transactionId, bounding_box, gestures,
                 pixelsPerSecond, keyframeUi>>

\* the digest that $evalAsync asks for when no other one comes first
PreviewDigest ==
  /\ Intact
  /\ \E id \in DOMAIN kp : kp[id].digest
  /\ project' = Digest(project, sortPending)
  /\ sortPending' = FALSE
  /\ kp' = DigestPreviews(kp)
  /\ last' = [op |-> "previewDigest",
              pending |-> {id \in DOMAIN kp : kp[id].digest /\ kp[id].raf}]
  /\ UNCHANGED <<Qt, selVars, modeVars, gesture, resize_disabled, dragLoc,
                 timing_original_start, transactionId, bounding_box, snapline, gestures, calls,
                 pixelsPerSecond, keyframeUi>>

\* a render callback of clip id fires: keyframePreviewRaf = null, then the render
RenderFrame(id) ==
  /\ kp[id].callbacks > 0
  /\ kp' = [kp EXCEPT ![id] =
              renderKeyframePreview([@ EXCEPT !.raf = FALSE, !.callbacks = @ - 1])]
  /\ last' = [op |-> "renderFrame", id |-> id, active |-> kp[id].preview.active,
              saved |-> kp[id].saved]
  /\ UNCHANGED <<storeVars, selVars, modeVars, gesture, resize_disabled, dragLoc,
                 timing_original_start, transactionId, bounding_box, snapline, gestures, calls,
                 pixelsPerSecond, keyframeUi>>

\* the pixelsPerSecond watcher of the clip directives, in the digest after a
\* zoom: a directive with an active preview clears, queues and renders
watchPixelsPerSecond(k) ==
  IF k.preview.active
  THEN renderKeyframePreview(scheduleKeyframePreviewDigest(clearKeyframePreviewTransform(k)))
  ELSE k

\* setScale: the scale and pixelsPerSecond are set in one $apply, whose digest
\* runs the pixelsPerSecond watcher of every clip directive where the value changed
SetScale(scaleVal) ==
  /\ Intact
  /\ {"scale", "tick_pixels"} \subseteq DOMAIN project
  /\ project' = Digest([project EXCEPT !.scale = scaleVal], sortPending)
  /\ sortPending' = FALSE
  /\ pixelsPerSecond' = [n |-> project.tick_pixels, d |-> scaleVal]
  /\ kp' = IF pixelsPerSecond.n * scaleVal = project.tick_pixels * pixelsPerSecond.d
           THEN DigestPreviews(kp)
           ELSE DigestPreviews([id \in DOMAIN kp |-> watchPixelsPerSecond(kp[id])])
  /\ last' = [op |-> "setScale", scaleVal |-> scaleVal]
  /\ UNCHANGED <<Qt, selVars, modeVars, gesture, resize_disabled, dragLoc,
                 timing_original_start, transactionId, bounding_box, snapline, gestures, calls,
                 keyframeUi>>

\* the scales of the zoom slider used here: 8 and 16 seconds per tick
Scales == {8 * ScaleUnit, DefaultScale}

\* a project tree with the scale and tick_pixels the host sends with it
Zoomed(p, scale) == [scale |-> scale, tick_pixels |-> DefaultTickPixels] @@ p

\* a clip of two frames on an open track and one on a locked track
PreviewProject ==
  Zoomed(Project(<<Clip("c1", 1, 0, 0, 2 * FrameTicks), Clip("c2", 2, FrameTicks, 0, FrameTicks)>>,
                 <<>>, <<Layer("L1", 1, FALSE), Layer("L2", 2, TRUE)>>, 2 * SecondTicks),
         DefaultScale)

\* the pointer on a frame of the clip, and past its end
PreviewPixels == {0, FrameTicks, 2 * FrameTicks, MaxPx}

InitPreview ==
  /\ project = PreviewProject
  /\ Qt = TRUE
  /\ InitRest

NextPreview ==
  \/ /\ gestures < MaxGestures
     /\ \E id \in {"c1", "c2"}, side \in {"left", "right"}, pointerLocked \in BOOLEAN :
           ClipResizeStart(id, side, pointerLocked)
  \/ \E px \in PreviewPixels : ClipResize(px)
  \/ \E px \in PreviewPixels : ClipResizeStop(px)
  \/ \E b \in BOOLEAN : SetTimingMode(b)
  \/ PreviewDigest
  \/ \E id \in {"c1", "c2"} : RenderFrame(id)
  \/ \E scaleVal \in Scales : SetScale(scaleVal)

SpecPreview == InitPreview /\ [][NextPreview]_vars

\* the seconds renderKeyframePreview puts an icon at, as a fraction
renderMappedSeconds(preview, frameSeconds) ==
  LET displayStart == preview.displayStart
      displayEnd == Max(preview.displayEnd, preview.displayStart)
      displayDuration == Max(displayEnd - displayStart, 0)
      originalStart == preview.originalStart
      originalEnd == Max(preview.originalEnd, preview.originalStart)
      originalDuration == Max(originalEnd - originalStart, 0)
      hasRetimeMapping == preview.mode = "retime" /\ originalDuration > 0 /\ displayDuration > 0
  IN IF hasRetimeMapping
     THEN [n |-> displayStart * originalDuration + (frameSeconds - originalStart) * displayDuration,
           d |-> originalDuration]
     ELSE Whole(frameSeconds)

\* the clip as getKeyframes sees it during the preview of its directive
Previewed(id) ==
  LET c == project.clips[IndexOfId(project.clips, id)]
  IN [start |-> c.start, end |-> c.end, ui |-> [keyframe_preview |-> kp[id].preview]]

SameFraction(a, b) == a.n * b.d = b.n * a.d

PreviewFrames == 1..4

SameSeconds(id, f) ==
  SameFraction(mapSecondsToDisplay(PreviewWindow(Previewed(id)), keyframeSeconds(f)),
               renderMappedSeconds(kp[id].preview, keyframeSeconds(f)))

ActivePreviews == {id \in DOMAIN kp : IndexOfId(project.clips, id) > 0 /\ kp[id].preview.active}

\* C32: during an active preview the enumerator and the renderer use the same
\* seconds for every keyframe, a retime of zero duration included
C32_SameSecondsInBoth ==
  \A id \in ActivePreviews : \A f \in PreviewFrames : SameSeconds(id, f)

\* C32 where the retime has a duration on both sides, or the mode is trim
C32_SameSecondsWhenStretched ==
  \A id \in ActivePreviews :
     (kp[id].preview.mode = "retime" =>
        /\ kp[id].preview.displayEnd > kp[id].preview.displayStart
        /\ kp[id].preview.originalEnd > kp[id].preview.originalStart)
     => \A f \in PreviewFrames : SameSeconds(id, f)

\* a retime that is stretched
C32_Stretched ==
  /\ last.op = "clipResize"
  /\ kp["c1"].preview.active /\ kp["c1"].preview.mode = "retime"
  /\ kp["c1"].preview.displayEnd - kp["c1"].preview.displayStart = FrameTicks

\* nothing of the preview of clip id is still to run
PreviewSettled(id) ==
  ~kp[id].preview.active /\ ~kp[id].digest /\ ~kp[id].raf /\ kp[id].callbacks = 0

\* C33: once the preview of a clip has stopped and the digest and the render
\* callback it deferred have run, every icon is back at its original left
C33_LeftRestoredAfterStop ==
  \A id \in {"c1", "c2"} : PreviewSettled(id) => kp[id].left = "original"

\* C33, what stopKeyframePreview does leave behind: no icon keeps a
\* data-original-left attribute
C33_NoAttributeAfterStop ==
  \A id \in {"c1", "c2"} : ~kp[id].preview.active => kp[id].saved = "none"

\* a render callback deferred by a stop has run
C33_DeferredRenderRan ==
  /\ last.op = "renderFrame" /\ ~last.active
  /\ PreviewSettled(last.id)

\* C34: the browser holds at most one render callback of a clip's keyframe
\* preview, and it holds one exactly when keyframePreviewRaf is set
C34_OneRenderPending ==
  \A id \in DOMAIN kp :
     /\ kp[id].callbacks <= 1
     /\ kp[id].raf <=> kp[id].callbacks = 1

\* a digest asked for a render of c1 while one was pending, during a preview
C34_Witness ==
  /\ last.op = "previewDigest"
  /\ "c1" \in last.pending
  /\ kp["c1"].preview.active
  /\ kp["c1"].callbacks = 1

\* ------------------------------------------------------ the keyframe cache
\* the entry keyframeCache holds for the object with this id
Cached(id) ==
  IF id \in DOMAIN keyframeUi.cache THEN keyframeUi.cache[id] ELSE NoCache

\* the clip as getKeyframes reads it: its fields and ui.keyframe_preview
EnumeratedClip(id) ==
  [ui |-> [keyframe_preview |-> kp[id].preview]] @@ project.clips[IndexOfId(project.clips, id)]

\* getKeyframes(clip), as the clip template calls it in a digest
GetKeyframesOf(id) ==
  /\ Intact
  /\ IndexOfId(project.clips, id) > 0
  /\ \E r \in {getKeyframesCached(EnumeratedClip(id), keyframeUi.filter, keyframeUi.templates,
                                  Cached(id))} :
       /\ keyframeUi' = [keyframeUi EXCEPT !.cache = (id :> r.cached) @@ @]
       /\ last' = [op |-> "getKeyframes", id |-> id, hit |-> r.cached = Cached(id)]
  /\ UNCHANGED <<storeVars, selVars, modeVars, gesture, resize_disabled, dragLoc,
                 timing_original_start, transactionId, bounding_box, snapline, kp,
                 pixelsPerSecond, gestures, calls>>

\* setPropertyFilter
SetPropertyFilter(property) ==
  /\ Intact
  /\ keyframeUi.filter # property
  /\ keyframeUi' = [keyframeUi EXCEPT !.filter = property]
  /\ project' = Digest(project, sortPending)
  /\ sortPending' = FALSE
  /\ kp' = DigestPreviews(kp)
  /\ last' = [op |-> "setPropertyFilter", property |-> property]
  /\ UNCHANGED <<Qt, selVars, modeVars, gesture, resize_disabled, dragLoc,
                 timing_original_start, transactionId, bounding_box, snapline,
                 pixelsPerSecond, gestures, calls>>

\* the request loadKeyframeIcons sent for an icon type completes
TemplateLoaded(type) ==
  /\ type \notin keyframeUi.templates
  /\ keyframeUi' = [keyframeUi EXCEPT !.templates = @ \cup {type}]
  /\ last' = [op |-> "templateLoaded", type |-> type]
  /\ UNCHANGED <<storeVars, selVars, modeVars, gesture, resize_disabled, dragLoc,
                 timing_original_start, transactionId, bounding_box, snapline, kp,
                 pixelsPerSecond, gestures, calls>>

\* a clip of two frames with a track, a colour and an effect with a track
CacheProject ==
  Project(<<[file_id |-> "f1", wave_color |-> Colour(2, 3)]
              @@ [Clip("c1", 1, 0, 0, 2 * FrameTicks)
                    EXCEPT !.alpha = Track(1, 2),
                           !.effects = <<[id |-> "e1", type |-> "Blur", selected |-> FALSE,
                                          brightness |-> Track(1, 3)]>>]>>,
          <<>>, TwoLayers, 2 * SecondTicks)

\* updates of the clip's points, start and end: the object stays the same
CacheDiffs ==
  {<<Action("update", <<Str("clips"), Sel("c1")>>, v, "Object")>> :
     v \in {[alpha |-> Track(1, 3)], [start |-> FrameTicks], [end |-> FrameTicks]}}

InitCache ==
  /\ project = CacheProject
  /\ Qt = TRUE
  /\ InitRest

NextCache ==
  \/ GetKeyframesOf("c1")
  \/ \E property \in {"", "alpha"} : SetPropertyFilter(property)
  \/ TemplateLoaded("bezier")
  \/ \E t \in {<<"c1", "clip">>, <<"e1", "effect">>} :
        SelectItem(t[1], t[2], TRUE, NoEvent, FALSE)
  \/ \E diff \in CacheDiffs : ApplyJsonDiff(diff)
  \/ gestures < MaxGestures /\ ClipResizeStart("c1", "right", FALSE)
  \/ ClipResize(FrameTicks)
  \/ ClipResizeStop(FrameTicks)

SpecCache == InitCache /\ [][NextCache]_vars

\* what getKeyframes would return now, and what an enumeration without
\* keyframeCache would
Served(id) ==
  getKeyframesCached(EnumeratedClip(id), keyframeUi.filter, keyframeUi.templates, Cached(id)).value

Enumerated(id) ==
  getKeyframesCached(EnumeratedClip(id), keyframeUi.filter, keyframeUi.templates, NoCache).value

\* C35: what getKeyframes returns for a clip is what an enumeration without
\* the cache returns: frames, interpolation, selected, owner, insidePreview, icon
C35_CacheNeverStale ==
  \A id \in {"c1"} : IndexOfId(project.clips, id) > 0 => Served(id) = Enumerated(id)

\* the mapping with the icon of every keyframe left out
WithoutIcons(keyframes) ==
  [f \in DOMAIN keyframes |->
     [k \in DOMAIN keyframes[f] \ {"icon"} |-> keyframes[f][k]]]

\* C35 for everything but the icon
C35_StaleOnlyInIcons ==
  \A id \in {"c1"} :
     IndexOfId(project.clips, id) > 0 => WithoutIcons(Served(id)) = WithoutIcons(Enumerated(id))

\* the cache answered after an edit
C35_HitAfterEdit ==
  /\ last.op = "getKeyframes" /\ last.hit
  /\ project.clips[1].end = FrameTicks
  /\ Served("c1") # NoKeyframes

\* ------------------------------------------------------------------ the zoom
ZoomProject ==
  Zoomed(Project(<<Clip("c1", 1, 0, 0, 2 * FrameTicks)>>, <<>>, TwoLayers, 2 * SecondTicks),
         DefaultScale)

\* the projects the host loads: saved at either scale
ZoomLoadable ==
  {Zoomed(Project(<<Clip("c1", 1, x, 0, 2 * FrameTicks)>>, <<>>, TwoLayers, 2 * SecondTicks),
          scale) : x \in {0, FrameTicks}, scale \in Scales}

\* the host changes the scale, tick_pixels or a clip through applyJsonDiff
ZoomDiffs ==
  {<<Action("update", <<Str("scale")>>, scale, "Prim")>> : scale \in Scales}
  \cup {<<Action("update", <<Str("tick_pixels")>>, 2 * DefaultTickPixels, "Prim")>>,
         <<Action("update", <<Str("clips"), Sel("c1")>>, [position |-> 2 * FrameTicks], "Object")>>}

InitZoom ==
  /\ project = ZoomProject
  /\ Qt = TRUE
  /\ InitRest

NextZoom ==
  \/ \E scaleVal \in Scales : SetScale(scaleVal)
  \/ \E value \in ZoomLoadable : LoadJson(value)
  \/ \E diff \in ZoomDiffs : ApplyJsonDiff(diff)
  \/ SortTick
  \/ \E id \in {"c1", ""} : SelectItem(id, "clip", TRUE, NoEvent, FALSE)

SpecZoom == InitZoom /\ [][NextZoom]_vars

\* pixelsPerSecond is the quotient of the project's tick_pixels and scale
PixelsPerSecondCurrent ==
  pixelsPerSecond.n * project.scale = project.tick_pixels * pixelsPerSecond.d

\* C36: pixelsPerSecond = project.tick_pixels / project.scale in every state
\* reached through setScale, loadJson and applyJsonDiff
C36_PixelsPerSecondFollowsScale == Intact => PixelsPerSecondCurrent

\* C36 for setScale alone: it leaves pixelsPerSecond current
C36_CurrentAfterSetScale == [][last'.op = "setScale" => PixelsPerSecondCurrent']_vars

\* a setScale that changed the scale
C36_Rescaled ==
  /\ last.op = "setScale" /\ project.scale = 8 * ScaleUnit
  /\ pixelsPerSecond = [n |-> DefaultTickPixels, d |-> 8 * ScaleUnit]

\* ------------------------------------------------ the drag of a clip or transition
\* the elements "#id, .ui-selected" of a draggable start, with where they sit
DraggedElements(p, type, id) ==
  LET it == Get(p, FindItem(p, type, id))
  IN (id :> [type |-> type, left |-> timeToPixel(it.position), top |-> it.layer])
     @@ SelectedElements(p)

\* draggable start of a clip or a transition: the start handler returns false
\* in razor mode or with a locked track under the bounding box, the drag is
\* then given up and no stop handler follows
ItemDragStart(type, id) ==
  /\ Intact
  /\ gesture.kind = "none"
  /\ FindItem(project, type, id) # <<>>
  /\ \E s \in {setSelections(project, lastSelectedItem, dragging, Qt, enable_razor, id, type)} :
     \E q \in {Digest(s.p, sortPending)} :
     \E box \in {DraggedElements(q, type, id)} :
     \E cancelled \in {enable_razor \/ \E e \in DOMAIN box : LayerLocked(q, box[e].top)} :
        /\ project' = q
        /\ lastSelectedItem' = s.lsi
        /\ hostSel' = HostApplyAll(hostSel, s.out)
        /\ bounding_box' = [kind |-> "drag", start_clips |-> box, move_clips |-> box]
        /\ gesture' = IF cancelled THEN NoGesture
                      ELSE [kind |-> "drag", type |-> type, id |-> id]
        /\ last' = [op |-> "dragStart", type |-> type, id |-> id, cancelled |-> cancelled]
  /\ sortPending' = FALSE
  /\ dragging' = TRUE
  /\ calls' = <<>>
  /\ kp' = DigestPreviews(kp)
  /\ UNCHANGED <<Qt, enable_razor, enable_timing, resize_disabled, dragLoc,
                 timing_original_start, transactionId, snapline, pixelsPerSecond, keyframeUi>>
  /\ gestures' = Min(gestures + 1, MaxGestures)

\* draggable stop: hideSnapline, then updateDraggables, which commits where
\* the elements lie and ends the drag
ItemDragStop ==
  /\ Intact
  /\ gesture.kind = "drag"
  /\ FindItem(project, gesture.type, gesture.id) # <<>>
  /\ \E r \in {UpdateItems([p |-> project, pending |-> sortPending, out |-> <<>>],
                            gesture.type, <<gesture.id>>, transactionId, bounding_box, 1)} :
       /\ project' = r.p
       /\ sortPending' = r.pending
       /\ calls' = calls \o r.out
  /\ snapline' = hideSnapline(snapline)
  /\ dragging' = FALSE
  /\ gesture' = NoGesture
  /\ bounding_box' = NoBox
  /\ kp' = DigestPreviews(kp)
  /\ last' = [op |-> "dragStop", type |-> gesture.type, id |-> gesture.id]
  /\ UNCHANGED <<Qt, selVars, enable_razor, enable_timing, resize_disabled, dragLoc,
                 timing_original_start, transactionId, pixelsPerSecond, keyframeUi, gestures>>

InitDrag ==
  /\ project = GestureProject
  /\ Qt = TRUE
  /\ InitRest

NextDrag ==
  \/ /\ gestures < MaxGestures
     /\ \E t \in {<<"clip", "c1">>, <<"clip", "c2">>, <<"transition", "t1">>} :
           ItemDragStart(t[1], t[2])
  \/ ItemDragStop
  \/ /\ gestures < MaxGestures
     /\ \E id \in {"c1", "c2"}, pointerLocked \in BOOLEAN :
           ClipResizeStart(id, "right", pointerLocked)
  \/ \E px \in {FrameTicks, MaxPx} : ClipResizeStop(px)
  \/ gestures < MaxGestures /\ TransitionResizeStart("t1", "right")
  \/ \E px \in {FrameTicks, MaxPx} : TransitionResizeStop(px)
  \/ \E b \in BOOLEAN : SetRazorMode(b)
  \/ \E t \in {<<"c1", "clip">>, <<"t1", "transition">>} :
        SelectItem(t[1], t[2], TRUE, NoEvent, FALSE)

SpecDrag == InitDrag /\ [][NextDrag]_vars

\* C37: dragging is true only while a gesture is in progress, a start that
\* its own handler cancelled being no gesture
C37_DraggingOnlyDuringGesture == gesture.kind = "none" => ~dragging

\* C37 for the gestures that did start: after their stop dragging is false
C37_FalseAfterStop ==
  [][last'.op \in {"dragStop", "clipResizeStop", "transitionResizeStop"}
       => ~dragging']_vars

\* a drag that went through
C37_Dragged == last.op = "dragStop" /\ ~dragging /\ gesture.kind = "none"

\* ------------------------------------------------- the anchor of shift-select
\* lastSelectedItem is a clip or a transition of the project
LastSelectedLive ==
  /\ lastSelectedItem.type \in {"clip", "transition"}
  /\ FindItem(project, lastSelectedItem.type, lastSelectedItem.id) # <<>>

\* C38: lastSelectedItem, when not null, is a clip or transition that is in
\* the project
C38_LastSelectedInProject ==
  (Intact /\ lastSelectedItem # NoItem) => LastSelectedLive

\* C38 at the moment selectItem sets it: what it sets is in the project
C38_LiveWhenSet ==
  [][(last'.op = "selectItem" /\ lastSelectedItem' # lastSelectedItem
        /\ lastSelectedItem' # NoItem /\ last'.type # "effect")
       => LastSelectedLive']_vars

\* selectItem set the anchor
C38_AnchorSet == last.op = "selectItem" /\ lastSelectedItem = [type |-> "clip", id |-> "c1"]

\* ------------------------------------------- the transition after a resize
\* the transition the last resize-stop worked on
StoppedTransition == project.effects[IndexOfId(project.effects, last.id)]

\* C39: after a transition resize-stop the transition has start = 0 <= end
\* and position >= 0
C39_TransitionWellFormedAfterStop ==
  last.op = "transitionResizeStop" =>
    /\ StoppedTransition.start = 0
    /\ 0 <= StoppedTransition.end
    /\ StoppedTransition.position >= 0

\* C39 without the bound on end: start = 0 and position >= 0 after the stop
C39_StartAndPositionAfterStop ==
  last.op = "transitionResizeStop" =>
    /\ StoppedTransition.start = 0
    /\ StoppedTransition.position >= 0

\* C39 for a pointer that stays on its own side of the opposite edge
C39_EndKeptWithinEdges ==
  [][(last'.op = "transitionResizeStop" /\ ~last'.disabled
        /\ \E t \in {project.effects[IndexOfId(project.effects, gesture.id)]} :
              IF dragLoc = "left"
              THEN pixelToTime(last'.px) <= t.position + (t.end - t.start)
              ELSE pixelToTime(last'.px) >= t.position)
       => 0 <= StoppedTransition'.end]_vars

\* a resize-stop that moved an edge of the transition
C39_Resized ==
  /\ last.op = "transitionResizeStop"
  /\ ~last.disabled
  /\ StoppedTransition.end # 3

\* ------------------------------------------ the track a keyframe drag sends
\* the frames of the owner's track before the drag: the stop works on a copy
FramesBefore ==
  Owner[IF \E i \in 1..Len(project.clips) : project.clips[i].id = last.id
        THEN KeyframeField("clip") ELSE KeyframeField("transition")]

\* the frames of the same track in the entity JSON of the stop's update call
FramesSent ==
  LET i == CHOOSE k \in 1..Len(calls) :
              calls[k].name \in {"update_clip_data", "update_transition_data"}
  IN calls[i].arg[IF calls[i].type = "clip" THEN KeyframeField("clip")
                  ELSE KeyframeField("transition")]

Distinct(s) == \A i, j \in 1..Len(s) : i # j => s[i] # s[j]

\* C40: the track sent by a committed keyframe drag has as many points as
\* before the drag and no two points at the same frame
C40_TrackStaysWellFormed ==
  FrameCommitted => Len(FramesSent) = Len(FramesBefore) /\ Distinct(FramesSent)

\* C40 without the distinct frames: the number of points is kept, and the
\* sent track is the old one with the dragged frame replaced
C40_PointCountKept ==
  FrameCommitted =>
    /\ Len(FramesSent) = Len(FramesBefore)
    /\ \A i \in 1..Len(FramesSent) :
          FramesSent[i] = IF FramesBefore[i] = last.currentFrame THEN last.newFrame
                          ELSE FramesBefore[i]

\* C40 for a new frame that no keyframe of the track sits at
C40_DistinctOnFreeFrame ==
  (FrameCommitted /\ \A i \in 1..Len(FramesBefore) : FramesBefore[i] # last.newFrame)
     => Distinct(FramesSent)

\* a keyframe was dragged to a free frame of its clip and committed
C40_MovedToFreeFrame ==
  /\ FrameCommitted
  /\ last.currentFrame = 1 /\ last.newFrame = 3
  /\ FramesSent = <<3, 2>>

====
